---- MODULE Spec2Model ----
(***************************************************************************)
(* PerfectSagen: the pronunciation scoring engine, a sequence of scoring   *)
(* calls, the practice page, the speech-recognition hook, the promise of   *)
(* recordAndTranscribe, the model pipeline of localTranscriptionService,   *)
(* and the recording hooks useMfaPronunciation and                         *)
(* useAdvancedPronunciation.  Each part has its own specification over its *)
(* own variables; the variables of the other parts rest at their idle      *)
(* values.                                                                 *)
(*                                                                         *)
(* A JavaScript string is a sequence of one-character strings.  A value    *)
(* handed to the scorer is a record [kind, text]: kind "string" carries    *)
(* the characters in text; kinds "null" and "number" are the malformed     *)
(* values a caller can pass at run time (text is then empty).              *)
(* JavaScript numbers are doubles; the fractions the scorer forms are kept *)
(* exact here as pairs <<numerator, denominator>>.                         *)
(***************************************************************************)
EXTENDS Integers, Sequences, FiniteSets, TLC

VARIABLES
  \* one call of a function of the scorer: its arguments and its outcome
  spoken, expected, ret,
  \* a sequence of scoring calls: the calls made so far, and the bindings of the
  \* module simpleSpeechService that a call could leave behind
  log, moduleScope,
  \* page.tsx: the state of Home, whether its word-loading effect is due, and
  \* the last event with the word shown before it
  currentWord, level, showResults, isSentenceMode, effectPending, lastEvent, wordBefore,
  \* useSimplePronunciation: its state, its ref, the module-level recognition,
  \* the recognizers created so far, its argument expectedText, and the
  \* browser's support
  isRecording, isProcessing, transcribedText, analysisResult, error, transcriptRef,
  recognition, recognizers, hookExpectedText, speechSupported,
  \* recordAndTranscribe: the promise it returns, the recognizer it starts, the
  \* events that recognizer has fired, and what the browser offers
  transcription, speechRecognizer, fired, browser,
  \* TranscriberPipeline: its two static fields, the number of pipeline(...)
  \* invocations, and the calls of getInstance and transcribeAudio made so far
  instance, loading_promise, pipelineCalls, callers,
  \* useMfaPronunciation: its state and its ref (one record), the calls of
  \* startRecording and checkBackendAvailability made so far, the recorders
  \* created, the blobs handed to transcribeAudio, and the browser's support
  mfa, mfaCalls, mfaRecorders, blobs, hasMediaRecorder,
  \* useAdvancedPronunciation: the two module-level bindings, the state of the
  \* hook with whether it is mounted, the startRecording calls made so far and
  \* the recorders created, each with its stream
  mediaRecorder, audioChunks, advanced, advancedCalls, advancedRecorders

scorerVars == <<spoken, expected, ret>>

callVars == <<log, moduleScope>>

pageVars == <<currentWord, level, showResults, isSentenceMode, effectPending, lastEvent,
              wordBefore>>

hookVars == <<isRecording, isProcessing, transcribedText, analysisResult, error,
              transcriptRef, recognition, recognizers, hookExpectedText, speechSupported>>

transcribeVars == <<transcription, speechRecognizer, fired, browser>>

\* the parts that wait on the browser's media and on the model
pipelineVars == <<instance, loading_promise, pipelineCalls, callers>>

mfaVars == <<mfa, mfaCalls, mfaRecorders, blobs, hasMediaRecorder>>

advancedVars == <<mediaRecorder, audioChunks, advanced, advancedCalls, advancedRecorders>>

ioVars == <<transcribeVars, pipelineVars, mfaVars, advancedVars>>

\* the variables of the other parts, for each of these parts
outsideTranscribe == <<scorerVars, callVars, pageVars, hookVars, pipelineVars, mfaVars,
                       advancedVars>>

outsidePipeline == <<scorerVars, callVars, pageVars, hookVars, transcribeVars, mfaVars,
                     advancedVars>>

outsideMfa == <<scorerVars, callVars, pageVars, hookVars, transcribeVars, pipelineVars,
                advancedVars>>

outsideAdvanced == <<scorerVars, callVars, pageVars, hookVars, transcribeVars, pipelineVars,
                     mfaVars>>

vars == <<scorerVars, callVars, pageVars, hookVars, ioVars>>

(***************************************************************************)
(* Bounds and the characters the bounded inputs are built from.            *)
(***************************************************************************)
MaxLen == 3

ManyWords == 30

Alphabet == {"a", "B", " "}

StringsUpTo(n) == UNION {[1..k -> Alphabet] : k \in 0..n}

Str(chars) == [kind |-> "string", text |-> chars]

NullValue == [kind |-> "null", text |-> <<>>]

NumberValue == [kind |-> "number", text |-> <<>>]

IsString(v) == v.kind = "string"

(***************************************************************************)
(* Character classes of the two regular expressions and of toLowerCase.    *)
(***************************************************************************)
UpperLetters == <<"A", "B", "C", "D", "E", "F", "G", "H", "I", "J", "K", "L", "M",
                  "N", "O", "P", "Q", "R", "S", "T", "U", "V", "W", "X", "Y", "Z">>

LowerLetters == <<"a", "b", "c", "d", "e", "f", "g", "h", "i", "j", "k", "l", "m",
                  "n", "o", "p", "q", "r", "s", "t", "u", "v", "w", "x", "y", "z">>

LowerOf == [c \in {UpperLetters[k] : k \in 1..Len(UpperLetters)} |->
              LowerLetters[CHOOSE k \in 1..Len(UpperLetters) : UpperLetters[k] = c]]

\* The class [.,\/#!$%\^&\*;:{}=\-_`~()]; the grave accent is written "GRAVE".
Punctuation == {".", ",", "/", "#", "!", "$", "%", "^", "&", "*", ";", ":",
                "{", "}", "=", "-", "_", "GRAVE", "~", "(", ")"}

Whitespace == {" ", "\t", "\n", "\r", "\f"}

toLowerCase(text) ==
  [k \in 1..Len(text) |-> IF text[k] \in DOMAIN LowerOf THEN LowerOf[text[k]] ELSE text[k]]

\* .replace(/[.,\/#!$%\^&\*;:{}=\-_`~()]/g, ''): every such character is dropped
notPunctuation(c) == c \notin Punctuation

removePunctuation(text) == SelectSeq(text, notPunctuation)

\* .replace(/\s+/g, ' '): every maximal run of whitespace becomes one space.  Each
\* character is paired with the flag "continues a run"; the first character of a
\* run becomes the space and the flagged ones are dropped.
startsOrIsNoRun(pair) == ~pair[2]

collapseWhitespace(text) ==
  LET marked == [k \in 1..Len(text) |->
                   <<IF text[k] \in Whitespace THEN " " ELSE text[k],
                     text[k] \in Whitespace /\ k > 1 /\ text[k - 1] \in Whitespace>>]
      kept == SelectSeq(marked, startsOrIsNoRun)
  IN [k \in 1..Len(kept) |-> kept[k][1]]

\* .trim(): the text from its first to its last character that is no whitespace
trim(text) ==
  LET inked == {k \in 1..Len(text) : text[k] \notin Whitespace}
  IN IF inked = {} THEN <<>>
     ELSE LET first == CHOOSE k \in inked : \A j \in inked : k <= j
              last == CHOOSE k \in inked : \A j \in inked : j <= k
          IN SubSeq(text, first, last)

\* normalizeGermanText trimming first, before the punctuation is removed
normalizeGermanTextTrimFirst(text) ==
  collapseWhitespace(removePunctuation(trim(toLowerCase(text))))

\* normalizeGermanText without toLowerCase
normalizeGermanTextKeepCase(text) == trim(collapseWhitespace(removePunctuation(text)))

\* normalizeGermanText without the final trim
normalizeGermanTextUntrimmed(text) ==
  collapseWhitespace(removePunctuation(toLowerCase(text)))

normalizeGermanText(text) == trim(collapseWhitespace(removePunctuation(toLowerCase(text))))

\* .split(' '): the pieces between the single spaces, in order; a text with no
\* space, the empty text included, gives one piece.
split(text) ==
  LET spaces == {k \in 1..Len(text) : text[k] = " "}
      \* position of the w-th space; 0 before the first piece, Len + 1 after the last
      cut(w) == IF w = 0 THEN 0
                ELSE IF w > Cardinality(spaces) THEN Len(text) + 1
                ELSE CHOOSE k \in spaces : Cardinality({j \in spaces : j <= k}) = w
  IN [w \in 1..(Cardinality(spaces) + 1) |-> SubSeq(text, cut(w - 1) + 1, cut(w) - 1)]

(***************************************************************************)
(* Arithmetic: Math.min / Math.max / Math.abs / Math.round.                *)
(***************************************************************************)
Min(x, y) == IF x <= y THEN x ELSE y

Max(x, y) == IF x >= y THEN x ELSE y

Abs(x) == IF x >= 0 THEN x ELSE 0 - x

RECURSIVE GCD(_, _)
GCD(x, y) == IF y = 0 THEN x ELSE GCD(y, x % y)

\* sum of two fractions, reduced
AddFrac(f, g) ==
  LET num == f[1] * g[2] + g[1] * f[2]
      den == f[2] * g[2]
      d == GCD(Abs(num), den)
  IN <<num \div d, den \div d>>

\* Math.round(num / den) for den > 0: the nearest integer, halves upwards.
MathRound(num, den) == (2 * num + den) \div (2 * den)

(***************************************************************************)
(* levenshteinDistance: the matrix is a sequence of rows; row i + 1,       *)
(* column j + 1 holds matrix[i][j].  The two loops run in index order; a   *)
(* range of indices is done as its lower half followed by its upper half,  *)
(* the lower half being complete before the upper half starts, which keeps *)
(* the evaluation depth logarithmic in the text length.                    *)
(***************************************************************************)
\* fillRow where a substitution costs as much as a deletion and an insertion
RECURSIVE fillRowNoSubstitution(_, _, _, _, _, _, _)
fillRowNoSubstitution(matrix, row, i, lo, hi, a, b) ==
  IF lo > hi THEN row
  ELSE IF lo = hi
  THEN LET j == lo
           cost == IF a[i] = b[j] THEN 0 ELSE 2
           cell == Min(Min(matrix[i][j + 1] + 1, row[j] + 1), matrix[i][j] + cost)
       IN Append(row, cell)
  ELSE LET mid == (lo + hi) \div 2
           lower == fillRowNoSubstitution(matrix, row, i, lo, mid, a, b)
       IN IF Len(lower) = mid + 1
          THEN fillRowNoSubstitution(matrix, lower, i, mid + 1, hi, a, b)
          ELSE lower

\* fillRow where a deletion costs 2
RECURSIVE fillRowCostlyDeletion(_, _, _, _, _, _, _)
fillRowCostlyDeletion(matrix, row, i, lo, hi, a, b) ==
  IF lo > hi THEN row
  ELSE IF lo = hi
  THEN LET j == lo
           cost == IF a[i] = b[j] THEN 0 ELSE 1
           cell == Min(Min(matrix[i][j + 1] + 2, row[j] + 1), matrix[i][j] + cost)
       IN Append(row, cell)
  ELSE LET mid == (lo + hi) \div 2
           lower == fillRowCostlyDeletion(matrix, row, i, lo, mid, a, b)
       IN IF Len(lower) = mid + 1
          THEN fillRowCostlyDeletion(matrix, lower, i, mid + 1, hi, a, b)
          ELSE lower

\* the inner loop for j in lo..hi: row grows by the cells matrix[i][lo..hi]
RECURSIVE fillRow(_, _, _, _, _, _, _)
fillRow(matrix, row, i, lo, hi, a, b) ==
  IF lo > hi THEN row
  ELSE IF lo = hi
  THEN LET j == lo
           cost == IF a[i] = b[j] THEN 0 ELSE 1
           cell == Min(Min(matrix[i][j + 1] + 1, row[j] + 1), matrix[i][j] + cost)
       IN Append(row, cell)
  ELSE LET mid == (lo + hi) \div 2
           lower == fillRow(matrix, row, i, lo, mid, a, b)
       IN IF Len(lower) = mid + 1   \* the cells 0..mid are there
          THEN fillRow(matrix, lower, i, mid + 1, hi, a, b)
          ELSE lower

\* the outer loop for i in lo..hi: matrix grows by the rows lo..hi
RECURSIVE fillMatrix(_, _, _, _, _)
fillMatrix(matrix, lo, hi, a, b) ==
  IF lo > hi THEN matrix
  ELSE IF lo = hi
  THEN Append(matrix, fillRow(matrix, <<lo>>, lo, 1, Len(b), a, b))
  ELSE LET mid == (lo + hi) \div 2
           lower == fillMatrix(matrix, lo, mid, a, b)
       IN IF Len(lower) = mid + 1   \* the rows 0..mid are there
          THEN fillMatrix(lower, mid + 1, hi, a, b)
          ELSE lower

levenshteinDistance(a, b) ==
  LET firstRow == [j \in 1..(Len(b) + 1) |-> j - 1]
      matrix == fillMatrix(<<firstRow>>, 1, Len(a), a, b)
  IN matrix[Len(a) + 1][Len(b) + 1]

(***************************************************************************)
(* simpleSpeechService: the three sub-analyses, on texts.                  *)
(***************************************************************************)
\* getPhoneticAnalysis dividing by the expected length instead of maxLength
getPhoneticAnalysisByExpectedLength(spokenText, expectedText) ==
  LET normalizedSpoken == normalizeGermanText(spokenText)
      normalizedExpected == normalizeGermanText(expectedText)
  IN IF Len(normalizedExpected) = 0 THEN 0
     ELSE LET distance == levenshteinDistance(normalizedSpoken, normalizedExpected)
              maxLength == Len(normalizedExpected)
              similarity == IF 100 * maxLength - 100 * distance >= 0
                            THEN <<100 * maxLength - 100 * distance, maxLength>>
                            ELSE <<0, 1>>
          IN (2 * similarity[1] + similarity[2]) \div (2 * similarity[2])

\* getPhoneticAnalysis comparing the texts as given
getPhoneticAnalysisRaw(spokenText, expectedText) ==
  IF Len(expectedText) = 0 THEN 0
  ELSE LET distance == levenshteinDistance(spokenText, expectedText)
           maxLength == Max(Len(spokenText), Len(expectedText))
       IN (2 * (100 * maxLength - 100 * distance) + maxLength) \div (2 * maxLength)

getPhoneticAnalysis(spokenText, expectedText) ==
  LET normalizedSpoken == normalizeGermanText(spokenText)
      normalizedExpected == normalizeGermanText(expectedText)
  IN IF Len(normalizedExpected) = 0 THEN 0
     ELSE LET distance == levenshteinDistance(normalizedSpoken, normalizedExpected)
              maxLength == Max(Len(normalizedSpoken), Len(normalizedExpected))
              \* similarity = Math.max(0, 100 - (distance / maxLength) * 100)
              similarity == IF 100 * maxLength - 100 * distance >= 0
                            THEN <<100 * maxLength - 100 * distance, maxLength>>
                            ELSE <<0, 1>>
          IN MathRound(similarity[1], similarity[2])

\* rhythmTotal without the floor Math.max(0, ...) of wordScore
RECURSIVE rhythmTotalUnclamped(_, _, _, _)
rhythmTotalUnclamped(spokenWords, expectedWords, lo, hi) ==
  IF lo > hi THEN 0
  ELSE IF lo = hi
  THEN 100 - Abs(Len(spokenWords[lo]) - Len(expectedWords[lo])) * 15
  ELSE LET mid == (lo + hi) \div 2
       IN rhythmTotalUnclamped(spokenWords, expectedWords, lo, mid)
          + rhythmTotalUnclamped(spokenWords, expectedWords, mid + 1, hi)

\* the loop of getRhythmAnalysis: totalScore is the sum of the wordScore of the
\* pairs lo..hi (the sum of a range is the sum of its two halves)
RECURSIVE rhythmTotal(_, _, _, _)
rhythmTotal(spokenWords, expectedWords, lo, hi) ==
  IF lo > hi THEN 0
  ELSE IF lo = hi
  THEN LET lengthDiff == Abs(Len(spokenWords[lo]) - Len(expectedWords[lo]))
           wordScore == Max(0, 100 - lengthDiff * 15)
       IN wordScore
  ELSE LET mid == (lo + hi) \div 2
       IN rhythmTotal(spokenWords, expectedWords, lo, mid)
          + rhythmTotal(spokenWords, expectedWords, mid + 1, hi)

\* getRhythmAnalysis without the floor of the word-count penalty
getRhythmAnalysisUnflooredPenalty(spokenText, expectedText) ==
  LET spokenWords == split(normalizeGermanText(spokenText))
      expectedWords == split(normalizeGermanText(expectedText))
  IN IF Len(spokenWords) # Len(expectedWords)
     THEN 70 - Abs(Len(spokenWords) - Len(expectedWords)) * 10
     ELSE LET minLength == Min(Len(spokenWords), Len(expectedWords))
          IN (2 * rhythmTotal(spokenWords, expectedWords, 1, minLength) + Max(1, minLength))
             \div (2 * Max(1, minLength))

\* getRhythmAnalysis truncating the average instead of rounding it
getRhythmAnalysisTruncated(spokenText, expectedText) ==
  LET spokenWords == split(normalizeGermanText(spokenText))
      expectedWords == split(normalizeGermanText(expectedText))
  IN IF Len(spokenWords) # Len(expectedWords)
     THEN Max(0, 70 - Abs(Len(spokenWords) - Len(expectedWords)) * 10)
     ELSE LET minLength == Min(Len(spokenWords), Len(expectedWords))
          IN rhythmTotal(spokenWords, expectedWords, 1, minLength) \div Max(1, minLength)

\* getRhythmAnalysis with a guard that is stronger than the word count
getRhythmAnalysisGuardOfTwo(spokenText, expectedText) ==
  LET spokenWords == split(normalizeGermanText(spokenText))
      expectedWords == split(normalizeGermanText(expectedText))
  IN IF Len(spokenWords) # Len(expectedWords)
     THEN Max(0, 70 - Abs(Len(spokenWords) - Len(expectedWords)) * 10)
     ELSE LET minLength == Min(Len(spokenWords), Len(expectedWords))
              totalScore == rhythmTotal(spokenWords, expectedWords, 1, minLength)
          IN MathRound(totalScore, Max(2, minLength))

getRhythmAnalysis(spokenText, expectedText) ==
  LET spokenWords == split(normalizeGermanText(spokenText))
      expectedWords == split(normalizeGermanText(expectedText))
  IN IF Len(spokenWords) # Len(expectedWords)
     THEN Max(0, 70 - Abs(Len(spokenWords) - Len(expectedWords)) * 10)
     ELSE LET minLength == Min(Len(spokenWords), Len(expectedWords))
              totalScore == rhythmTotal(spokenWords, expectedWords, 1, minLength)
          IN MathRound(totalScore, Max(1, minLength))

\* the loop of getStressAnalysis: totalScore, a fraction, is the sum of the
\* similarity of the pairs lo..hi (the sum of a range is the sum of its two halves)
RECURSIVE stressTotal(_, _, _, _)
stressTotal(spokenWords, expectedWords, lo, hi) ==
  IF lo > hi THEN <<0, 1>>
  ELSE IF lo = hi
  THEN IF spokenWords[lo] = expectedWords[lo] THEN <<100, 1>>
       ELSE LET distance == levenshteinDistance(spokenWords[lo], expectedWords[lo])
                longest == Max(Len(spokenWords[lo]), Len(expectedWords[lo]))
            IN <<100 * longest - 100 * distance, longest>>
  ELSE LET mid == (lo + hi) \div 2
       IN AddFrac(stressTotal(spokenWords, expectedWords, lo, mid),
                  stressTotal(spokenWords, expectedWords, mid + 1, hi))

\* getStressAnalysis taking the default only when both texts have at most one word
getStressAnalysisDefaultWhenBoth(spokenText, expectedText) ==
  LET spokenWords == split(normalizeGermanText(spokenText))
      expectedWords == split(normalizeGermanText(expectedText))
  IN IF Len(spokenWords) <= 1 /\ Len(expectedWords) <= 1
     THEN 70
     ELSE LET minLength == Min(Len(spokenWords), Len(expectedWords))
              totalScore == stressTotal(spokenWords, expectedWords, 1, minLength)
          IN (2 * totalScore[1] + totalScore[2] * minLength) \div (2 * totalScore[2] * minLength)

\* getStressAnalysis averaging over the longer word sequence
getStressAnalysisOverLonger(spokenText, expectedText) ==
  LET spokenWords == split(normalizeGermanText(spokenText))
      expectedWords == split(normalizeGermanText(expectedText))
  IN IF Len(spokenWords) <= 1 \/ Len(expectedWords) <= 1
     THEN 70
     ELSE LET minLength == Min(Len(spokenWords), Len(expectedWords))
              maxLength == Max(Len(spokenWords), Len(expectedWords))
              totalScore == stressTotal(spokenWords, expectedWords, 1, minLength)
          IN (2 * totalScore[1] + totalScore[2] * maxLength) \div (2 * totalScore[2] * maxLength)

\* getStressAnalysis with the default 100 for a single word
getStressAnalysisDefaultHundred(spokenText, expectedText) ==
  LET spokenWords == split(normalizeGermanText(spokenText))
      expectedWords == split(normalizeGermanText(expectedText))
  IN IF Len(spokenWords) <= 1 \/ Len(expectedWords) <= 1
     THEN 100
     ELSE LET minLength == Min(Len(spokenWords), Len(expectedWords))
              totalScore == stressTotal(spokenWords, expectedWords, 1, minLength)
          IN (2 * totalScore[1] + totalScore[2] * minLength) \div (2 * totalScore[2] * minLength)

getStressAnalysis(spokenText, expectedText) ==
  LET spokenWords == split(normalizeGermanText(spokenText))
      expectedWords == split(normalizeGermanText(expectedText))
  IN IF Len(spokenWords) <= 1 \/ Len(expectedWords) <= 1
     THEN 70
     ELSE LET minLength == Min(Len(spokenWords), Len(expectedWords))
              totalScore == stressTotal(spokenWords, expectedWords, 1, minLength)
          IN MathRound(totalScore[1], totalScore[2] * Max(1, minLength))

(***************************************************************************)
(* getFeedback: the message is the concatenation of the returned pieces.   *)
(***************************************************************************)
\* the scan reporting the last index at which the characters differ
RECURSIVE lastMismatch(_, _, _)
lastMismatch(spokenChars, expectedChars, i) ==
  IF i > Min(Len(spokenChars), Len(expectedChars)) THEN 0
  ELSE LET later == lastMismatch(spokenChars, expectedChars, i + 1)
       IN IF later > 0 THEN later
          ELSE IF spokenChars[i] # expectedChars[i] THEN i
          ELSE 0

\* the loop of getFeedback from index i on: the first index (1-based) at which the
\* characters differ, 0 when the overlapping part has none
RECURSIVE firstMismatch(_, _, _)
firstMismatch(spokenChars, expectedChars, i) ==
  IF i > Min(Len(spokenChars), Len(expectedChars)) THEN 0
  ELSE IF spokenChars[i] # expectedChars[i] THEN i
  ELSE firstMismatch(spokenChars, expectedChars, i + 1)

\* getFeedback with score > 40 for the last band
getFeedbackStrictForty(score, spokenText, expectedText) ==
  IF score >= 90 THEN <<"Excellent pronunciation!">>
  ELSE IF score >= 75 THEN <<"Very good pronunciation, keep practicing!">>
  ELSE IF score >= 60 THEN <<"Good effort, try to pronounce more clearly.">>
  ELSE IF score > 40 THEN <<"Keep practicing, focus on pronouncing each syllable.">>
  ELSE LET spokenChars == normalizeGermanText(spokenText)
           expectedChars == normalizeGermanText(expectedText)
           i == firstMismatch(spokenChars, expectedChars, 1)
       IN IF i > 0
          THEN <<"Practice needed. ", "Try to pronounce \"", expectedChars[i],
                 "\" instead of \"", spokenChars[i], "\".">>
          ELSE <<"Try again and speak more clearly.">>

getFeedback(score, spokenText, expectedText) ==
  IF score >= 90 THEN <<"Excellent pronunciation!">>
  ELSE IF score >= 75 THEN <<"Very good pronunciation, keep practicing!">>
  ELSE IF score >= 60 THEN <<"Good effort, try to pronounce more clearly.">>
  ELSE IF score >= 40 THEN <<"Keep practicing, focus on pronouncing each syllable.">>
  ELSE LET spokenChars == normalizeGermanText(spokenText)
           expectedChars == normalizeGermanText(expectedText)
           i == firstMismatch(spokenChars, expectedChars, 1)
       IN IF i > 0
          THEN <<"Practice needed. ", "Try to pronounce \"", expectedChars[i],
                 "\" instead of \"", spokenChars[i], "\".">>
          ELSE <<"Try again and speak more clearly.">>

(***************************************************************************)
(* Outcomes of a call: a returned value or a thrown exception, with the    *)
(* helper functions the call invoked, in order.                            *)
(***************************************************************************)
Return(value, calls) == [kind |-> "return", value |-> value, calls |-> calls]

Throw(message, calls) == [kind |-> "throw", value |-> message, calls |-> calls]

\* The TypeError of calling a string method on a value that is no string.
typeError(v, receiver, method) ==
  IF v.kind = "null"
  THEN <<"Cannot read properties of null (reading '", method, "')">>
  ELSE <<receiver, ".", method, " is not a function">>

\* !transcribed: null and the empty string are falsy; the number is not 0.
falsy(v) == v.kind = "null" \/ (IsString(v) /\ v.text = <<>>)

details(phoneticAccuracy, rhythmAccuracy, stressAccuracy) ==
  [phoneticAccuracy |-> phoneticAccuracy,
   rhythmAccuracy |-> rhythmAccuracy,
   stressAccuracy |-> stressAccuracy]

noSpeechResult ==
  [score |-> 0,
   feedback |-> <<"No speech detected. Please try again and speak more clearly.">>,
   details |-> details(0, 0, 0)]

errorResult(message) ==
  [score |-> 0,
   feedback |-> <<"Error analyzing pronunciation">>,
   details |-> details(0, 0, 0),
   error |-> message]

\* overallScore with the weights 0.5 / 0.3 / 0.2
overallScoreOtherWeights(phoneticAccuracy, rhythmAccuracy, stressAccuracy) ==
  (2 * (5 * phoneticAccuracy + 3 * rhythmAccuracy + 2 * stressAccuracy) + 10) \div 20

\* Math.round((phoneticAccuracy * 0.6) + (rhythmAccuracy * 0.2) + (stressAccuracy * 0.2))
overallScore(phoneticAccuracy, rhythmAccuracy, stressAccuracy) ==
  MathRound(6 * phoneticAccuracy + 2 * rhythmAccuracy + 2 * stressAccuracy, 10)

\* lines 253-268: the sub-analyses, the score, the feedback, the result
scoreBody(transcribed, expectedValue) ==
  IF ~IsString(transcribed)
  THEN Throw(typeError(transcribed, "text", "toLowerCase"), <<"getPhoneticAnalysis">>)
  ELSE IF ~IsString(expectedValue)
  THEN Throw(typeError(expectedValue, "text", "toLowerCase"), <<"getPhoneticAnalysis">>)
  ELSE LET phoneticAccuracy == getPhoneticAnalysis(transcribed.text, expectedValue.text)
           rhythmAccuracy == getRhythmAnalysis(transcribed.text, expectedValue.text)
           stressAccuracy == getStressAnalysis(transcribed.text, expectedValue.text)
           score == overallScore(phoneticAccuracy, rhythmAccuracy, stressAccuracy)
           feedback == getFeedback(score, transcribed.text, expectedValue.text)
       IN Return([score |-> score,
                  feedback |-> feedback,
                  details |-> details(phoneticAccuracy, rhythmAccuracy, stressAccuracy)],
                 <<"getPhoneticAnalysis", "getRhythmAnalysis", "getStressAnalysis",
                   "getFeedback">>)

\* lines 240-268: the body of the try block
tryBody(transcribed, expectedValue) ==
  IF falsy(transcribed) THEN Return(noSpeechResult, <<>>)
  ELSE IF ~IsString(transcribed)
  THEN Throw(typeError(transcribed, "transcribed", "trim"), <<>>)
  ELSE IF trim(transcribed.text) = <<>> THEN Return(noSpeechResult, <<>>)
  ELSE scoreBody(transcribed, expectedValue)

\* catchBlock that lets the exception through
catchBlockRethrows(outcome) == outcome

\* lines 269-280: the catch block turns a thrown exception into a result
catchBlock(outcome) ==
  IF outcome.kind = "throw"
  THEN Return(errorResult(outcome.value), outcome.calls)
  ELSE outcome

analyzePronunciation(transcribed, expectedValue) ==
  catchBlock(tryBody(transcribed, expectedValue))

(***************************************************************************)
(* localTranscriptionService: its own copy of the scorer.  Its             *)
(* levenshteinDistance and normalizeGermanText are the same text as the    *)
(* ones above; the sub-analyses divide by minLength itself.                *)
(***************************************************************************)
localGetPhoneticAnalysis(spokenText, expectedText) ==
  LET normalizedSpoken == normalizeGermanText(spokenText)
      normalizedExpected == normalizeGermanText(expectedText)
  IN IF Len(normalizedExpected) = 0 THEN 0
     ELSE LET distance == levenshteinDistance(normalizedSpoken, normalizedExpected)
              maxLength == Max(Len(normalizedSpoken), Len(normalizedExpected))
              similarity == IF 100 * maxLength - 100 * distance >= 0
                            THEN <<100 * maxLength - 100 * distance, maxLength>>
                            ELSE <<0, 1>>
          IN MathRound(similarity[1], similarity[2])

localGetRhythmAnalysis(spokenText, expectedText) ==
  LET spokenWords == split(normalizeGermanText(spokenText))
      expectedWords == split(normalizeGermanText(expectedText))
  IN IF Len(spokenWords) # Len(expectedWords)
     THEN Max(0, 70 - Abs(Len(spokenWords) - Len(expectedWords)) * 10)
     ELSE LET minLength == Min(Len(spokenWords), Len(expectedWords))
              totalScore == rhythmTotal(spokenWords, expectedWords, 1, minLength)
          IN MathRound(totalScore, minLength)

localGetStressAnalysis(spokenText, expectedText) ==
  LET spokenWords == split(normalizeGermanText(spokenText))
      expectedWords == split(normalizeGermanText(expectedText))
  IN IF Len(spokenWords) <= 1 \/ Len(expectedWords) <= 1
     THEN 70
     ELSE LET minLength == Min(Len(spokenWords), Len(expectedWords))
              totalScore == stressTotal(spokenWords, expectedWords, 1, minLength)
          IN MathRound(totalScore[1], totalScore[2] * minLength)

localGetFeedback(score, spokenText, expectedText) ==
  IF score >= 90 THEN <<"Excellent pronunciation!">>
  ELSE IF score >= 75 THEN <<"Very good pronunciation, keep practicing!">>
  ELSE IF score >= 60 THEN <<"Good effort, try to pronounce more clearly.">>
  ELSE IF score >= 40 THEN <<"Keep practicing, focus on pronouncing each syllable.">>
  ELSE LET spokenChars == normalizeGermanText(spokenText)
           expectedChars == normalizeGermanText(expectedText)
           i == firstMismatch(spokenChars, expectedChars, 1)
       IN IF i > 0
          THEN <<"Practice needed. ", "Try to pronounce \"", expectedChars[i],
                 "\" instead of \"", spokenChars[i], "\".">>
          ELSE <<"Try again and speak more clearly.">>

\* lines 267-290: the body of the try block; there is no blank-transcript test
localTryBody(transcribed, expectedValue) ==
  IF ~IsString(transcribed)
  THEN Throw(typeError(transcribed, "text", "toLowerCase"), <<"getPhoneticAnalysis">>)
  ELSE IF ~IsString(expectedValue)
  THEN Throw(typeError(expectedValue, "text", "toLowerCase"), <<"getPhoneticAnalysis">>)
  ELSE LET phoneticAccuracy == localGetPhoneticAnalysis(transcribed.text, expectedValue.text)
           rhythmAccuracy == localGetRhythmAnalysis(transcribed.text, expectedValue.text)
           stressAccuracy == localGetStressAnalysis(transcribed.text, expectedValue.text)
           score == overallScore(phoneticAccuracy, rhythmAccuracy, stressAccuracy)
           feedback == localGetFeedback(score, transcribed.text, expectedValue.text)
       IN Return([score |-> score,
                  feedback |-> feedback,
                  details |-> details(phoneticAccuracy, rhythmAccuracy, stressAccuracy)],
                 <<"getPhoneticAnalysis", "getRhythmAnalysis", "getStressAnalysis",
                   "getFeedback">>)

localAnalyzePronunciation(transcribed, expectedValue) ==
  catchBlock(localTryBody(transcribed, expectedValue))

(***************************************************************************)
(* The pronunciation utilities: calculateAccuracy, with a                  *)
(* levenshteinDistance and a normalizeGermanText that are the same text as *)
(* the ones of simpleSpeechService.                                        *)
(***************************************************************************)
calculateAccuracy(spokenText, expectedText) ==
  LET normalizedSpoken == normalizeGermanText(spokenText)
      normalizedExpected == normalizeGermanText(expectedText)
  IN IF Len(normalizedExpected) = 0 THEN 0
     ELSE LET distance == levenshteinDistance(normalizedSpoken, normalizedExpected)
              maxLength == Max(Len(normalizedSpoken), Len(normalizedExpected))
              accuracy == IF 100 * maxLength - 100 * distance >= 0
                          THEN <<100 * maxLength - 100 * distance, maxLength>>
                          ELSE <<0, 1>>
          IN MathRound(accuracy[1], accuracy[2])

(***************************************************************************)
(* Inputs: every pair of values whose texts have at most MaxLen            *)
(* characters of Alphabet, the malformed values, and the listed phrases.   *)
(***************************************************************************)
RECURSIVE repeatWord(_, _)
repeatWord(word, n) ==
  IF n = 0 THEN <<>>
  ELSE IF n = 1 THEN word
  ELSE word \o <<" ">> \o repeatWord(word, n - 1)

Hallo == <<"H", "a", "l", "l", "o">>

Danke == <<"D", "a", "n", "k", "e">>

Xyz == <<"X", "y", "z">>

HiX == <<"H", "i", " ", "x">>

Ha == <<"H", "a">>

Ja == <<"J", "a">>

Entschuldigung == <<"E", "n", "t", "s", "c", "h", "u", "l", "d", "i", "g", "u", "n", "g">>

HalloWieGeht == Hallo \o <<" ", "w", "i", "e", " ", "g", "e", "h", "t">>

HalloWieGehtEsDir == HalloWieGeht \o <<" ", "e", "s", " ", "d", "i", "r">>

HalloSentence == Hallo \o <<",", " ", "w", "i", "e", " ", "g", "e", "h", "t", " ", "e", "s",
                            " ", "d", "i", "r", "?">>

GutenMorgen == <<"G", "u", "t", "e", "n", " ", "M", "o", "r", "g", "e", "n">>

GutenTag == <<"G", "u", "t", "e", "n", " ", "T", "a", "g">>

ManyA == repeatWord(<<"a">>, ManyWords)

ManyAOneLonger == repeatWord(<<"a">>, ManyWords - 1) \o <<" ", "a", "b">>

Phrases ==
  { <<Hallo, Hallo>>, <<<<>>, Danke>>, <<<<" ", "\t", "\n">>, Danke>>,
    <<HalloWieGeht, HalloWieGehtEsDir>>, <<Xyz, Hallo>>, <<Ja, Entschuldigung>>,
    <<Entschuldigung, Ja>>, <<HalloWieGehtEsDir, HalloSentence>>,
    <<GutenTag, GutenMorgen>>, <<GutenMorgen, GutenTag>>, <<Hallo, GutenTag>>,
    <<<<"a", " ", "-", " ", "b">>, <<"A", "\t", "B">>>>,
    <<<<"a", "b", " ", "b">>, <<"a", " ", "b", "b", " ", "a", "b">>>>,
    <<ManyA, ManyA>>, <<ManyA, ManyAOneLonger>>, <<ManyAOneLonger, ManyA>>,
    <<repeatWord(<<"a">>, 9), Ja>>, <<Ja, repeatWord(<<"a">>, 9)>>,
    <<<<"!">>, <<>>>>, <<<<"!", "?">>, <<"a">>>>, <<<<".", " ", ",">>, Hallo>>,
    <<<<"-">>, <<"(", ")">>>>, <<<<"!", "a">>, <<"a", "!", " ", "B", ".">>>>,
    <<<<"a", "!", "b">>, <<"a", " ", "!", " ", "b">>>>, <<<<"\t">>, <<"!">>>>,
    <<Hallo, <<"h", "a", "l", "l", "o", "!">>>>, <<Danke, <<>>>>,
    <<<<"a", "b", "c", " ", "d", "e">>, <<"a", "b", "d", " ", "e", " ", "f">>>>,
    <<<<"a", "a", "b", " ", "a", "b", "b", " ", "b">>,
      <<"a", "b", " ", "a", " ", "b", "b", "b">>>>,
    <<<<" ", "!", " ", "a">>, <<"a">>>>, <<HiX, HalloWieGehtEsDir>>,
    <<Ha, HalloWieGehtEsDir>>, <<HalloWieGehtEsDir, Ha>>,
    <<<<"A", "\t", "-", " ", "B">>, <<"a", " ", "b">>>> }

\* texts with a punctuation character and a tab among their characters
PunctuatedAlphabet == {"a", "B", " ", "-", "\t"}

PunctuatedTexts == UNION {[1..k -> PunctuatedAlphabet] : k \in 0..MaxLen}

Values == {Str(t) : t \in StringsUpTo(MaxLen)} \cup {NullValue, NumberValue}

Inputs ==
  (Values \X Values)
    \cup {<<Str(p[1]), Str(p[2])>> : p \in Phrases}
    \cup {<<Str(t), Str(<<"a", " ", "B">>)>> : t \in PunctuatedTexts}

pending == [fn |-> "none", kind |-> "pending", value |-> 0, calls |-> <<>>]

Returned(fn, outcome) ==
  [fn |-> fn, kind |-> outcome.kind, value |-> outcome.value, calls |-> outcome.calls]

\* the values at which the variables of a part rest while another part runs
scorerIdle == spoken = NullValue /\ expected = NullValue /\ ret = pending

callsIdle == log = <<>> /\ moduleScope = {}

pageIdle ==
  /\ currentWord = 0 /\ level = "A1" /\ showResults = FALSE /\ isSentenceMode = FALSE
  /\ effectPending = FALSE /\ lastEvent = "none" /\ wordBefore = 0

hookIdle ==
  /\ isRecording = FALSE /\ isProcessing = FALSE /\ transcribedText = <<>>
  /\ analysisResult = <<>> /\ error = <<>> /\ transcriptRef = <<>>
  /\ recognition = 0 /\ recognizers = <<>> /\ hookExpectedText = <<>>
  /\ speechSupported = TRUE

\* a promise: not yet created, pending, or settled with a value
noPromise == [state |-> "none", value |-> <<>>]

transcribeIdle ==
  /\ transcription = noPromise /\ speechRecognizer = "none" /\ fired = <<>>
  /\ browser = [supported |-> TRUE, startThrows |-> FALSE]

pipelineIdle ==
  instance = <<>> /\ loading_promise = <<>> /\ pipelineCalls = 0 /\ callers = <<>>

\* useMfaPronunciation before its first render: the initial values of its
\* useState and useRef calls (null is <<>> for state and 0 for the ref)
mfaInitial ==
  [isBackendAvailable |-> FALSE, isCheckingBackend |-> FALSE, isRecording |-> FALSE,
   isProcessing |-> FALSE, audioChunks |-> <<>>, transcribedText |-> <<>>,
   analysisResult |-> <<>>, error |-> <<>>, mediaRecorder |-> 0]

mfaIdle ==
  /\ mfa = mfaInitial /\ mfaCalls = <<>> /\ mfaRecorders = <<>> /\ blobs = <<>>
  /\ hasMediaRecorder = TRUE

\* useAdvancedPronunciation as its first render leaves it
advancedInitial ==
  [isRecording |-> FALSE, isProcessing |-> FALSE, transcribedText |-> <<>>,
   analysisResult |-> <<>>, error |-> <<>>, mounted |-> TRUE]

advancedIdle ==
  /\ mediaRecorder = 0 /\ audioChunks = <<>> /\ advanced = advancedInitial
  /\ advancedCalls = <<>> /\ advancedRecorders = <<>>

ioIdle == transcribeIdle /\ pipelineIdle /\ mfaIdle /\ advancedIdle

Init ==
  /\ \E input \in Inputs : spoken = input[1] /\ expected = input[2]
  /\ ret = pending
  /\ callsIdle /\ pageIdle /\ hookIdle /\ ioIdle

CallLevenshteinDistance ==
  /\ ret.fn = "none"
  /\ IsString(spoken) /\ IsString(expected)
  /\ ret' = Returned("levenshteinDistance",
                     Return(levenshteinDistance(spoken.text, expected.text), <<>>))
  /\ UNCHANGED <<spoken, expected, callVars, pageVars, hookVars, ioVars>>

CallNormalizeGermanText ==
  /\ ret.fn = "none"
  /\ IsString(spoken)
  /\ ret' = Returned("normalizeGermanText", Return(normalizeGermanText(spoken.text), <<>>))
  /\ UNCHANGED <<spoken, expected, callVars, pageVars, hookVars, ioVars>>

CallGetPhoneticAnalysis ==
  /\ ret.fn = "none"
  /\ IsString(spoken) /\ IsString(expected)
  /\ ret' = Returned("getPhoneticAnalysis",
                     Return(getPhoneticAnalysis(spoken.text, expected.text), <<>>))
  /\ UNCHANGED <<spoken, expected, callVars, pageVars, hookVars, ioVars>>

CallGetRhythmAnalysis ==
  /\ ret.fn = "none"
  /\ IsString(spoken) /\ IsString(expected)
  /\ ret' = Returned("getRhythmAnalysis",
                     Return(getRhythmAnalysis(spoken.text, expected.text), <<>>))
  /\ UNCHANGED <<spoken, expected, callVars, pageVars, hookVars, ioVars>>

CallGetStressAnalysis ==
  /\ ret.fn = "none"
  /\ IsString(spoken) /\ IsString(expected)
  /\ ret' = Returned("getStressAnalysis",
                     Return(getStressAnalysis(spoken.text, expected.text), <<>>))
  /\ UNCHANGED <<spoken, expected, callVars, pageVars, hookVars, ioVars>>

CallAnalyzePronunciation ==
  /\ ret.fn = "none"
  /\ ret' = Returned("analyzePronunciation", analyzePronunciation(spoken, expected))
  /\ UNCHANGED <<spoken, expected, callVars, pageVars, hookVars, ioVars>>

CallLocalAnalyzePronunciation ==
  /\ ret.fn = "none"
  /\ ret' = Returned("localAnalyzePronunciation", localAnalyzePronunciation(spoken, expected))
  /\ UNCHANGED <<spoken, expected, callVars, pageVars, hookVars, ioVars>>

CallCalculateAccuracy ==
  /\ ret.fn = "none"
  /\ IsString(spoken) /\ IsString(expected)
  /\ ret' = Returned("calculateAccuracy",
                     Return(calculateAccuracy(spoken.text, expected.text), <<>>))
  /\ UNCHANGED <<spoken, expected, callVars, pageVars, hookVars, ioVars>>

Next ==
  \/ CallLevenshteinDistance
  \/ CallNormalizeGermanText
  \/ CallGetPhoneticAnalysis
  \/ CallGetRhythmAnalysis
  \/ CallGetStressAnalysis
  \/ CallAnalyzePronunciation
  \/ CallLocalAnalyzePronunciation
  \/ CallCalculateAccuracy

Spec == Init /\ [][Next]_vars

(***************************************************************************)
(* A sequence of scoring calls.  A call of analyzePronunciation is         *)
(* synchronous: it runs to completion before the next call starts.  The    *)
(* module simpleSpeechService binds only constants (its functions), so the *)
(* set of bindings a call could leave behind starts empty; a call is given *)
(* the scope and returns the scope it leaves.                              *)
(***************************************************************************)
MaxCalls == 3

CallInputs ==
  { <<Str(Hallo), Str(Hallo)>>, <<Str(Xyz), Str(Hallo)>>, <<Str(<<>>), Str(Danke)>>,
    <<NullValue, Str(Hallo)>>, <<Str(Hallo), NumberValue>> }

\* a call that keeps its first outcome in the module and returns it ever after
callInScopeRemembering(scope, transcribed, expectedValue) ==
  IF scope = {}
  THEN [outcome |-> analyzePronunciation(transcribed, expectedValue),
        scope |-> {analyzePronunciation(transcribed, expectedValue)}]
  ELSE [outcome |-> CHOOSE kept \in scope : TRUE, scope |-> scope]

\* analyzePronunciation called in the module scope: every binding it uses is a
\* parameter or a local const, and it assigns to none of the module
callInScope(scope, transcribed, expectedValue) ==
  [outcome |-> analyzePronunciation(transcribed, expectedValue), scope |-> scope]

called(fn, transcribed, expectedValue, outcome) ==
  [fn |-> fn, transcribed |-> transcribed, expectedValue |-> expectedValue,
   outcome |-> outcome]

InitCalls ==
  /\ log = <<>> /\ moduleScope = {}
  /\ scorerIdle /\ pageIdle /\ hookIdle /\ ioIdle

ScorerCall ==
  /\ Len(log) < MaxCalls
  /\ \E input \in CallInputs :
       LET call == callInScope(moduleScope, input[1], input[2])
       IN /\ log' = Append(log, called("analyzePronunciation", input[1], input[2],
                                        call.outcome))
          /\ moduleScope' = call.scope
  /\ UNCHANGED <<scorerVars, pageVars, hookVars, ioVars>>

\* the scorer of localTranscriptionService is another module: it leaves the
\* bindings of simpleSpeechService alone
LocalScorerCall ==
  /\ Len(log) < MaxCalls
  /\ \E input \in CallInputs :
       log' = Append(log, called("localAnalyzePronunciation", input[1], input[2],
                                 localAnalyzePronunciation(input[1], input[2])))
  /\ UNCHANGED <<moduleScope, scorerVars, pageVars, hookVars, ioVars>>

NextCalls ==
  \/ ScorerCall
  \/ LocalScorerCall

SpecCalls == InitCalls /\ [][NextCalls]_vars

(***************************************************************************)
(* page.tsx: Home.  A word is held by its id, 0 for null.  Of the hook the *)
(* page sees isRecording, isProcessing and analysisResult (<<>> for null); *)
(* here a recording is its start, its stop and the end of the processing.  *)
(* An effect runs before the next event is handled.                        *)
(***************************************************************************)
\* vocabulary.ts: ids 1..20 are of level A1, ids 21..25 of level A2
vocabulary == [id \in 1..25 |-> [id |-> id, level |-> IF id <= 20 THEN "A1" ELSE "A2"]]

\* the levels the level selector offers
Levels == {"A1", "A2"}

\* vocabulary.filter(item => item.level === level), in order
filteredVocabulary(lvl) ==
  LET ids == {i \in 1..Len(vocabulary) : vocabulary[i].level = lvl}
      nth(n) == CHOOSE i \in ids : Cardinality({j \in ids : j <= i}) = n
  IN [n \in 1..Cardinality(ids) |-> vocabulary[nth(n)]]

\* the values of Math.floor(Math.random() * filteredVocabulary.length)
randomIndices(lvl) == 0..(Len(filteredVocabulary(lvl)) - 1)

\* getRandomWord, given the random index it drew (0-based)
getRandomWord(lvl, randomIndex) == filteredVocabulary(lvl)[randomIndex + 1]

\* a record button that is never disabled
buttonNeverDisabled == FALSE

\* the record button of VocabularyCard: disabled={isProcessing}
buttonDisabled == isProcessing

\* the "Next Word" button is rendered inside showResults && analysisResult
nextWordButtonShown == showResults /\ analysisResult # <<>>

InitPage ==
  /\ currentWord = 0 /\ level = "A1" /\ showResults = FALSE /\ isSentenceMode = FALSE
  /\ effectPending = TRUE /\ lastEvent = "none" /\ wordBefore = 0
  /\ scorerIdle /\ callsIdle /\ hookIdle /\ ioIdle

\* a handler ran: the last event and the word that was shown before it
noted(event) == lastEvent' = event /\ wordBefore' = currentWord

hookUnseen == <<transcribedText, error, transcriptRef, recognition, recognizers,
                hookExpectedText, speechSupported>>

\* useEffect(..., [level]): on mount and after a change of level
LoadWordEffect ==
  /\ effectPending
  /\ \E randomIndex \in randomIndices(level) :
       currentWord' = getRandomWord(level, randomIndex).id
  /\ showResults' = FALSE
  /\ effectPending' = FALSE
  /\ noted("effect")
  /\ UNCHANGED <<level, isSentenceMode, isRecording, isProcessing, analysisResult>>
  /\ UNCHANGED <<hookUnseen, scorerVars, callVars, ioVars>>

handleRecordStart ==
  /\ ~effectPending /\ currentWord # 0
  /\ ~buttonDisabled /\ ~isRecording
  /\ showResults' = FALSE
  /\ analysisResult' = <<>>
  /\ isRecording' = TRUE
  /\ noted("handleRecordStart")
  /\ UNCHANGED <<currentWord, level, isSentenceMode, effectPending, isProcessing>>
  /\ UNCHANGED <<hookUnseen, scorerVars, callVars, ioVars>>

handleRecordStop ==
  /\ ~effectPending /\ currentWord # 0
  /\ ~buttonDisabled /\ isRecording
  /\ isRecording' = FALSE
  /\ isProcessing' = TRUE
  /\ showResults' = TRUE
  /\ noted("handleRecordStop")
  /\ UNCHANGED <<currentWord, level, isSentenceMode, effectPending, analysisResult>>
  /\ UNCHANGED <<hookUnseen, scorerVars, callVars, ioVars>>

\* the end of the processing: an analysis, or none when the scorer reported an error
ProcessingEnds ==
  /\ isProcessing
  /\ isProcessing' = FALSE
  /\ \E analysis \in {<<>>, <<"analysis">>} : analysisResult' = analysis
  /\ noted("onend")
  /\ UNCHANGED <<currentWord, level, showResults, isSentenceMode, effectPending,
                 isRecording>>
  /\ UNCHANGED <<hookUnseen, scorerVars, callVars, ioVars>>

handleNextWord ==
  /\ ~effectPending /\ currentWord # 0
  /\ nextWordButtonShown
  /\ \E randomIndex \in randomIndices(level) :
       currentWord' = getRandomWord(level, randomIndex).id
  /\ showResults' = FALSE
  /\ noted("handleNextWord")
  /\ UNCHANGED <<level, isSentenceMode, effectPending, isRecording, isProcessing,
                 analysisResult>>
  /\ UNCHANGED <<hookUnseen, scorerVars, callVars, ioVars>>

\* setLevel(newLevel): the effect is due when the level changed
handleLevelChange ==
  /\ ~effectPending /\ currentWord # 0
  /\ \E newLevel \in Levels :
       /\ level' = newLevel
       /\ effectPending' = (newLevel # level)
  /\ noted("handleLevelChange")
  /\ UNCHANGED <<currentWord, showResults, isSentenceMode, isRecording, isProcessing,
                 analysisResult>>
  /\ UNCHANGED <<hookUnseen, scorerVars, callVars, ioVars>>

handleToggleMode ==
  /\ ~effectPending /\ currentWord # 0
  /\ isSentenceMode' = ~isSentenceMode
  /\ showResults' = FALSE
  /\ noted("handleToggleMode")
  /\ UNCHANGED <<currentWord, level, effectPending, isRecording, isProcessing,
                 analysisResult>>
  /\ UNCHANGED <<hookUnseen, scorerVars, callVars, ioVars>>

NextPage ==
  \/ LoadWordEffect
  \/ handleRecordStart
  \/ handleRecordStop
  \/ ProcessingEnds
  \/ handleNextWord
  \/ handleLevelChange
  \/ handleToggleMode

SpecPage == InitPage /\ [][NextPage]_vars

(***************************************************************************)
(* useSimplePronunciation, driven by the record button of VocabularyCard   *)
(* (onClick={isRecording ? onRecordStop : onRecordStart}) and by the       *)
(* events of the recognizers it created.  A recognizer is a record:        *)
(*   status     "started", "stopping" (stop() was called), "failed" (its   *)
(*              error event fired) or "ended" (its end event fired);       *)
(*   onend      <<>> while no handler is set, else <<expectedText>>, the   *)
(*              text the handler set by stopListening closes over;         *)
(*   delivered  the transcript of its last result event, empty if none;    *)
(*   scoredWith <<>>, or <<transcript>> once its onend handler gave that   *)
(*              transcript to analyzePronunciation.                        *)
(* A recognizer delivers results until it ends or fails, a stopped one     *)
(* included; after its error event only its end event follows; stop() on   *)
(* an ended recognizer does nothing.  State of type T | null is <<>> for   *)
(* null and <<value>> otherwise; error is <<>> or the pieces of a message. *)
(***************************************************************************)
MaxSessions == 3

\* the transcripts a recognizer may deliver, and the texts to practise
Transcripts == {Hallo, Danke}

newRecognizer == [status |-> "started", onend |-> <<>>, delivered |-> <<>>,
                  scoredWith |-> <<>>]

\* what the onend handler gets from analyzePronunciation, by transcript and
\* expected text
analyses ==
  [finalTranscript \in Transcripts \cup {<<>>}, expectedText \in Transcripts |->
     analyzePronunciation(Str(finalTranscript), Str(expectedText)).value] @@ <<>>

InitHook ==
  /\ isRecording = FALSE /\ isProcessing = FALSE /\ transcribedText = <<>>
  /\ analysisResult = <<>> /\ error = <<>> /\ transcriptRef = <<>>
  /\ recognition = 0 /\ recognizers = <<>>
  /\ hookExpectedText \in Transcripts
  /\ speechSupported \in BOOLEAN
  /\ scorerIdle /\ callsIdle /\ pageIdle /\ ioIdle

\* a click on the record button while nothing is recorded
startListening ==
  /\ ~buttonDisabled /\ ~isRecording
  /\ Len(recognizers) < MaxSessions
  /\ transcribedText' = <<>>
  /\ analysisResult' = <<>>
  /\ transcriptRef' = <<>>
  /\ IF ~speechSupported
     THEN /\ error' = <<"Speech recognition is not supported in your browser">>
          /\ UNCHANGED <<recognition, recognizers, isRecording>>
     ELSE /\ error' = <<>>
          /\ recognizers' = Append(recognizers, newRecognizer)
          /\ recognition' = Len(recognizers) + 1
          /\ isRecording' = TRUE
  /\ UNCHANGED <<isProcessing, hookExpectedText, speechSupported>>
  /\ UNCHANGED <<scorerVars, callVars, pageVars, ioVars>>

\* a click on the record button while recording
stopListening ==
  /\ ~buttonDisabled /\ isRecording
  /\ IF ~isRecording \/ recognition = 0
     THEN UNCHANGED <<isRecording, isProcessing, recognizers>>
     ELSE /\ isRecording' = FALSE
          /\ isProcessing' = TRUE
          /\ recognizers' =
               [recognizers EXCEPT ![recognition] =
                  [@ EXCEPT !.onend = <<hookExpectedText>>,
                            !.status = IF @ = "started" THEN "stopping" ELSE @]]
  /\ UNCHANGED <<transcribedText, analysisResult, error, transcriptRef, recognition,
                 hookExpectedText, speechSupported>>
  /\ UNCHANGED <<scorerVars, callVars, pageVars, ioVars>>

\* recognition.onresult of recognizer id
RecognizerResult ==
  \E id \in 1..Len(recognizers), transcript \in Transcripts :
    /\ recognizers[id].status \in {"started", "stopping"}
    /\ transcriptRef' = transcript
    /\ recognizers' = [recognizers EXCEPT ![id].delivered = transcript]
    /\ UNCHANGED <<isRecording, isProcessing, transcribedText, analysisResult, error,
                   recognition, hookExpectedText, speechSupported>>
    /\ UNCHANGED <<scorerVars, callVars, pageVars, ioVars>>

\* recognition.onerror of recognizer id
RecognizerError ==
  \E id \in 1..Len(recognizers) :
    /\ recognizers[id].status \in {"started", "stopping"}
    /\ error' = <<"Speech recognition error: ", "no-speech">>
    /\ isRecording' = FALSE
    /\ recognizers' = [recognizers EXCEPT ![id].status = "failed"]
    /\ UNCHANGED <<isProcessing, transcribedText, analysisResult, transcriptRef,
                   recognition, hookExpectedText, speechSupported>>
    /\ UNCHANGED <<scorerVars, callVars, pageVars, ioVars>>

\* the end event of recognizer id; recognition.onend when stopListening set it
RecognizerEnd ==
  \E id \in 1..Len(recognizers) :
    /\ recognizers[id].status \in {"started", "stopping", "failed"}
    /\ IF recognizers[id].onend = <<>>
       THEN /\ recognizers' = [recognizers EXCEPT ![id].status = "ended"]
            /\ UNCHANGED <<transcribedText, analysisResult, error, isProcessing>>
       ELSE LET finalTranscript == transcriptRef
                analysis == analyses[finalTranscript, recognizers[id].onend[1]]
            IN /\ recognizers' = [recognizers EXCEPT ![id].status = "ended",
                                                     ![id].scoredWith = <<finalTranscript>>]
               /\ transcribedText' = finalTranscript
               /\ isProcessing' = FALSE
               /\ IF "error" \in DOMAIN analysis
                  THEN error' = analysis.error /\ UNCHANGED analysisResult
                  ELSE analysisResult' = <<analysis>> /\ UNCHANGED error
    /\ UNCHANGED <<isRecording, transcriptRef, recognition, hookExpectedText,
                   speechSupported>>
    /\ UNCHANGED <<scorerVars, callVars, pageVars, ioVars>>

\* Home renders the hook with the text of another word or of the sentence
ChangeExpectedText ==
  /\ \E text \in Transcripts \ {hookExpectedText} : hookExpectedText' = text
  /\ UNCHANGED <<isRecording, isProcessing, transcribedText, analysisResult, error,
                 transcriptRef, recognition, recognizers, speechSupported>>
  /\ UNCHANGED <<scorerVars, callVars, pageVars, ioVars>>

NextHook ==
  \/ startListening
  \/ stopListening
  \/ RecognizerResult
  \/ RecognizerError
  \/ RecognizerEnd
  \/ ChangeExpectedText

SpecHook == InitHook /\ [][NextHook]_vars

\* A recognizer that was started fires its end event in the end: stop() ends
\* it, an error ends it, and a recognizer left alone ends on its own once the
\* speaker is silent.  Clicks and renders are under no obligation to happen.
SpecHookFair == SpecHook /\ WF_vars(RecognizerEnd)

(***************************************************************************)
(* recordAndTranscribe.  The executor of the promise runs inside the call: *)
(* it resolves at once when the browser has no recognizer or when setting  *)
(* one up throws, and otherwise attaches the three handlers and starts the *)
(* recognizer.  The recognizer then fires result events, at most one error *)
(* event, and a final end event; each handler calls resolve.  reject is    *)
(* never called and nothing the executor runs outside its try can throw.   *)
(***************************************************************************)
MaxResults == 3

ErrorCodes == {"no-speech", "not-allowed", "network"}

pendingPromise == [state |-> "pending", value |-> <<>>]

\* resolve letting the last call win
resolveOverwriting(settling, value) == [state |-> "fulfilled", value |-> value]

\* resolve(value): settles a pending promise; a settled promise keeps its value
resolve(settling, value) ==
  IF settling.state = "pending" THEN [state |-> "fulfilled", value |-> value]
  ELSE settling

unsupportedResult ==
  [text |-> <<>>, error |-> <<"Speech recognition is not supported in your browser">>]

thrownResult == [text |-> <<>>, error |-> <<"message of the error thrown">>]

InitTranscribe ==
  /\ transcription = noPromise /\ speechRecognizer = "none" /\ fired = <<>>
  /\ browser \in [supported : BOOLEAN, startThrows : BOOLEAN]
  /\ scorerIdle /\ callsIdle /\ pageIdle /\ hookIdle /\ pipelineIdle /\ mfaIdle
  /\ advancedIdle

recordAndTranscribe ==
  /\ transcription.state = "none"
  /\ IF ~browser.supported
     THEN /\ transcription' = resolve(pendingPromise, unsupportedResult)
          /\ UNCHANGED speechRecognizer
     ELSE IF browser.startThrows
     THEN /\ transcription' = resolve(pendingPromise, thrownResult)
          /\ UNCHANGED speechRecognizer
     ELSE /\ transcription' = pendingPromise
          /\ speechRecognizer' = "started"
  /\ UNCHANGED <<fired, browser, outsideTranscribe>>

\* recognition.onresult
onresult ==
  /\ speechRecognizer = "started"
  /\ Len(fired) < MaxResults
  /\ \E transcript \in Transcripts :
       /\ fired' = Append(fired, [type |-> "result", transcript |-> transcript])
       /\ transcription' = resolve(transcription, [text |-> transcript])
  /\ UNCHANGED <<speechRecognizer, browser, outsideTranscribe>>

\* recognition.onerror
onerror ==
  /\ speechRecognizer = "started"
  /\ \E code \in ErrorCodes :
       /\ fired' = Append(fired, [type |-> "error", error |-> code])
       /\ transcription' =
            resolve(transcription,
                    [text |-> <<>>, error |-> <<"Speech recognition error: ", code>>])
  /\ speechRecognizer' = "failed"
  /\ UNCHANGED <<browser, outsideTranscribe>>

\* recognition.onend
onend ==
  /\ speechRecognizer \in {"started", "failed"}
  /\ fired' = Append(fired, [type |-> "end"])
  /\ transcription' = resolve(transcription, [text |-> <<>>])
  /\ speechRecognizer' = "ended"
  /\ UNCHANGED <<browser, outsideTranscribe>>

NextTranscribe ==
  \/ recordAndTranscribe
  \/ onresult
  \/ onerror
  \/ onend

SpecTranscribe == InitTranscribe /\ [][NextTranscribe]_vars

(***************************************************************************)
(* TranscriberPipeline and transcribeAudio of localTranscriptionService.   *)
(* JavaScript runs one task at a time: the body of getInstance has no      *)
(* await, so a call tests and sets the static fields in one step, the      *)
(* executor of the loading promise included (it runs up to its await,      *)
(* which is after pipeline(...) was invoked).  What interleaves are the    *)
(* calls, the settling of the load, and the continuations of the awaits.   *)
(* A call in callers is a record:                                          *)
(*   fn       "getInstance" or "transcribeAudio";                          *)
(*   loadWas  the state of the load when the call was made;                *)
(*   got      what getInstance returned to it: "instance" or               *)
(*            "loading_promise";                                           *)
(*   state    "awaiting" (getInstance's promise has not been observed),    *)
(*            "fulfilled" / "rejected" (a getInstance call, observed),     *)
(*            "transcribing", "returned" or "threw" (transcribeAudio);     *)
(*   value    the instance, the error, or the result returned.             *)
(* An error is a record [isError, message]: a thrown value need not be an  *)
(* Error object.                                                           *)
(***************************************************************************)
MaxCallers == 3

thePipe == "whisper pipeline"

LoadErrors == {[isError |-> TRUE, message |-> "fetch failed"],
               [isError |-> FALSE, message |-> "quota exceeded"]}

TranscriberErrors == {[isError |-> TRUE, message |-> "decode failed"]}

\* the state of the load: "none" before pipeline(...) was invoked, then the
\* state of the loading promise
loadState == IF loading_promise = <<>> THEN "none" ELSE loading_promise[1].state

\* getInstance without the test of loading_promise
getInstanceWithoutJoin(cached, loading) ==
  IF cached # <<>> THEN "instance" ELSE "start loading"

\* the branch getInstance takes
getInstanceBranch(cached, loading) ==
  IF cached # <<>> THEN "instance"
  ELSE IF loading # <<>> THEN "loading_promise"
  ELSE "start loading"

\* the catch block of transcribeAudio letting the error through
transcribeCatchRethrows(err) == [state |-> "threw", value |-> err]

\* the catch block of transcribeAudio
transcribeCatch(err) ==
  [state |-> "returned",
   value |-> [text |-> <<>>,
              error |-> IF err.isError THEN err.message
                        ELSE "Unknown transcription error"]]

newCall(fn) ==
  [fn |-> fn, loadWas |-> loadState,
   got |-> IF getInstanceBranch(instance, loading_promise) = "instance" THEN "instance"
           ELSE "loading_promise",
   state |-> "awaiting", value |-> <<>>]

\* a call enters getInstance
enterGetInstance(fn) ==
  /\ callers' = Append(callers, newCall(fn))
  /\ IF getInstanceBranch(instance, loading_promise) = "start loading"
     THEN /\ pipelineCalls' = pipelineCalls + 1
          /\ loading_promise' = <<pendingPromise>>
     ELSE UNCHANGED <<pipelineCalls, loading_promise>>
  /\ UNCHANGED <<instance, outsidePipeline>>

InitPipeline ==
  /\ pipelineIdle
  /\ scorerIdle /\ callsIdle /\ pageIdle /\ hookIdle /\ transcribeIdle /\ mfaIdle
  /\ advancedIdle

\* TranscriberPipeline.getInstance() called by itself
getInstance ==
  /\ Len(callers) < MaxCallers
  /\ enterGetInstance("getInstance")

\* transcribeAudio(audioBlob) up to its await of getInstance(): lines 73-75
transcribeAudio ==
  /\ Len(callers) < MaxCallers
  /\ enterGetInstance("transcribeAudio")

\* pipeline(...) settles with the model: lines 50-54
PipelineResolves ==
  /\ loadState = "pending"
  /\ instance' = <<thePipe>>
  /\ loading_promise' = <<resolve(loading_promise[1], thePipe)>>
  /\ UNCHANGED <<pipelineCalls, callers, outsidePipeline>>

\* pipeline(...) throws or rejects: lines 55-58
PipelineRejects ==
  /\ loadState = "pending"
  /\ \E err \in LoadErrors :
       loading_promise' = <<[state |-> "rejected", value |-> err]>>
  /\ UNCHANGED <<instance, pipelineCalls, callers, outsidePipeline>>

\* what a call sees once the promise it got from getInstance has settled
settledFor(call) ==
  IF call.got = "instance" THEN [state |-> "fulfilled", value |-> instance[1]]
  ELSE loading_promise[1]

\* the continuation of an await on getInstance()
AwaitSettles ==
  \E id \in 1..Len(callers) :
    /\ callers[id].state = "awaiting"
    /\ callers[id].got = "loading_promise" => loadState \in {"fulfilled", "rejected"}
    /\ LET seen == settledFor(callers[id])
           next == IF callers[id].fn = "getInstance" THEN seen
                   ELSE IF seen.state = "rejected" THEN transcribeCatch(seen.value)
                   ELSE [state |-> "transcribing", value |-> seen.value]
       IN callers' = [callers EXCEPT ![id].state = next.state, ![id].value = next.value]
    /\ UNCHANGED <<instance, loading_promise, pipelineCalls, outsidePipeline>>

\* transcriber(audioArrayBuffer, ...) settles: lines 82-92
TranscriberSettles ==
  \E id \in 1..Len(callers) :
    /\ callers[id].state = "transcribing"
    /\ \/ \E text \in Transcripts \cup {<<>>} :
            callers' = [callers EXCEPT ![id].state = "returned",
                                       ![id].value = [text |-> text]]
       \/ \E err \in TranscriberErrors :
            callers' = [callers EXCEPT ![id].state = transcribeCatch(err).state,
                                       ![id].value = transcribeCatch(err).value]
    /\ UNCHANGED <<instance, loading_promise, pipelineCalls, outsidePipeline>>

NextPipeline ==
  \/ getInstance
  \/ transcribeAudio
  \/ PipelineResolves
  \/ PipelineRejects
  \/ AwaitSettles
  \/ TranscriberSettles

SpecPipeline == InitPipeline /\ [][NextPipeline]_vars

(***************************************************************************)
(* useMfaPronunciation.  The hook is rendered after every state update, so *)
(* a callback that is called reads the current state; a handler keeps the  *)
(* values its callback had when it was created.  An async callback runs up *)
(* to its next await in one step.  A call in mfaCalls is a record:         *)
(*   fn            "startRecording" or "checkBackendAvailability";         *)
(*   pc            "checking" (awaiting the health check), "getUserMedia"  *)
(*                 (awaiting the microphone) or "done";                    *)
(*   available     "pending", then "yes" or "no": what its check returned; *)
(*   micRequested  whether it called getUserMedia;                         *)
(*   setRecording  whether it called setIsRecording(true);                 *)
(*   afterCheck    <<>>, then <<[error, isCheckingBackend]>> as its check  *)
(*                 left them.                                              *)
(* A recorder is a record [owner, state, onstop, delivered, tracks]:       *)
(* owner is the call that created it; state is "recording", "stopping"     *)
(* (stop() was called), "flushed" (its data was delivered) or "inactive";  *)
(* onstop is <<>> or <<chunks>>, the audioChunks its handler closes over;  *)
(* delivered are the chunks of its dataavailable events.  recorder.start() *)
(* is called without a timeslice, so a recorder delivers its data in one   *)
(* dataavailable event after stop() and before its stop event.             *)
(***************************************************************************)
MaxMfaCalls == 2

ChunkSizes == {0, 1}

\* GET /health: answered ok, answered otherwise, or fetch throws
HealthResponses == {"ok", "not ok", "fetch throws"}

\* checkMfaBackendAvailability of mfaTranscriptionService: it catches every error
checkMfaBackendAvailability(response) == response = "ok"

\* checkBackendAvailability up to its await
checkStarted(state) == [state EXCEPT !.isCheckingBackend = TRUE, !.error = <<>>]

\* checkBackendAvailability from its await on: the result, then the finally block
checkSettled(state, available) ==
  [state EXCEPT !.isBackendAvailable = available,
                !.error = IF available THEN @
                          ELSE <<"Montreal Forced Aligner backend is not available.">>,
                !.isCheckingBackend = FALSE]

\* startRecording going on to the microphone whatever the check returned
proceedsRegardless(isAvailable) == TRUE

\* if (!isAvailable) return
proceedsToRecord(isAvailable) == isAvailable

newMfaCall(fn) ==
  [fn |-> fn, pc |-> "checking", available |-> "pending", micRequested |-> FALSE,
   setRecording |-> FALSE, afterCheck |-> <<>>]

newMfaRecorder(owner) ==
  [owner |-> owner, state |-> "recording", onstop |-> <<>>, delivered |-> <<>>,
   tracks |-> "live"]

\* the first render calls checkBackendAvailability from its useState initializer
InitMfa ==
  /\ mfa = checkStarted(mfaInitial)
  /\ mfaCalls = <<newMfaCall("checkBackendAvailability")>>
  /\ mfaRecorders = <<>> /\ blobs = <<>>
  /\ hasMediaRecorder \in BOOLEAN
  /\ scorerIdle /\ callsIdle /\ pageIdle /\ hookIdle /\ transcribeIdle /\ pipelineIdle
  /\ advancedIdle

checkBackendAvailability ==
  /\ Len(mfaCalls) < MaxMfaCalls
  /\ mfa' = checkStarted(mfa)
  /\ mfaCalls' = Append(mfaCalls, newMfaCall("checkBackendAvailability"))
  /\ UNCHANGED <<mfaRecorders, blobs, hasMediaRecorder, outsideMfa>>

\* startRecording up to its await of checkBackendAvailability()
startRecording ==
  /\ Len(mfaCalls) < MaxMfaCalls
  /\ IF ~hasMediaRecorder
     THEN /\ mfa' = [mfa EXCEPT
                       !.error = <<"MediaRecorder API is not supported in this browser">>]
          /\ UNCHANGED mfaCalls
     ELSE /\ mfa' = checkStarted([mfa EXCEPT !.error = <<>>, !.transcribedText = <<>>,
                                             !.analysisResult = <<>>,
                                             !.audioChunks = <<>>])
          /\ mfaCalls' = Append(mfaCalls, newMfaCall("startRecording"))
  /\ UNCHANGED <<mfaRecorders, blobs, hasMediaRecorder, outsideMfa>>

\* the health check of call id settles: the rest of checkBackendAvailability
\* and, in startRecording, the test of its result and the call of getUserMedia
CheckSettles ==
  \E id \in 1..Len(mfaCalls), response \in HealthResponses :
    /\ mfaCalls[id].pc = "checking"
    /\ LET available == checkMfaBackendAvailability(response)
           after == checkSettled(mfa, available)
           proceeds == mfaCalls[id].fn = "startRecording" /\ proceedsToRecord(available)
       IN /\ mfa' = after
          /\ mfaCalls' =
               [mfaCalls EXCEPT ![id] =
                  [@ EXCEPT !.available = IF available THEN "yes" ELSE "no",
                            !.afterCheck = <<[error |-> after.error,
                                              isCheckingBackend |-> after.isCheckingBackend]>>,
                            !.pc = IF proceeds THEN "getUserMedia" ELSE "done",
                            !.micRequested = proceeds]]
    /\ UNCHANGED <<mfaRecorders, blobs, hasMediaRecorder, outsideMfa>>

\* getUserMedia of call id settles: the recorder is created and started, or
\* the catch block reports the error
GetUserMediaSettles ==
  \E id \in 1..Len(mfaCalls), granted \in BOOLEAN :
    /\ mfaCalls[id].pc = "getUserMedia"
    /\ IF granted
       THEN /\ mfaRecorders' = Append(mfaRecorders, newMfaRecorder(id))
            /\ mfa' = [mfa EXCEPT !.mediaRecorder = Len(mfaRecorders) + 1,
                                  !.isRecording = TRUE]
            /\ mfaCalls' = [mfaCalls EXCEPT ![id].pc = "done", ![id].setRecording = TRUE]
       ELSE /\ mfa' = [mfa EXCEPT !.error = <<"Recording error: ", "Permission denied">>]
            /\ mfaCalls' = [mfaCalls EXCEPT ![id].pc = "done"]
            /\ UNCHANGED mfaRecorders
    /\ UNCHANGED <<blobs, hasMediaRecorder, outsideMfa>>

\* stopRecording: it sets the onstop handler, which closes over audioChunks
\* as this render has them, and calls stop()
stopRecording ==
  /\ IF mfa.mediaRecorder = 0 \/ ~mfa.isRecording
     THEN /\ mfa' = [mfa EXCEPT !.error = <<"No recording in progress">>]
          /\ UNCHANGED mfaRecorders
     ELSE /\ mfa' = [mfa EXCEPT !.isRecording = FALSE, !.isProcessing = TRUE]
          /\ mfaRecorders' =
               [mfaRecorders EXCEPT ![mfa.mediaRecorder] =
                  [@ EXCEPT !.onstop = <<mfa.audioChunks>>,
                            !.state = IF @ = "recording" THEN "stopping" ELSE @]]
  /\ UNCHANGED <<mfaCalls, blobs, hasMediaRecorder, outsideMfa>>

\* recorder.ondataavailable
ondataavailable ==
  \E id \in 1..Len(mfaRecorders), size \in ChunkSizes :
    /\ mfaRecorders[id].state = "stopping"
    /\ LET data == [recorder |-> id, size |-> size]
       IN /\ mfaRecorders' = [mfaRecorders EXCEPT ![id].state = "flushed",
                                                   ![id].delivered = Append(@, data)]
          /\ mfa' = IF data.size > 0
                    THEN [mfa EXCEPT !.audioChunks = Append(@, data)]
                    ELSE mfa
    /\ UNCHANGED <<mfaCalls, blobs, hasMediaRecorder, outsideMfa>>

\* mediaRecorder.current.onstop up to its await of transcribeAudio(audioBlob)
onstop ==
  \E id \in 1..Len(mfaRecorders) :
    /\ mfaRecorders[id].state = "flushed"
    /\ mfaRecorders[id].onstop # <<>>
    /\ blobs' = Append(blobs, [recorder |-> id, chunks |-> mfaRecorders[id].onstop[1],
                               state |-> "transcribing"])
    /\ mfaRecorders' = [mfaRecorders EXCEPT ![id].state = "inactive",
                                            ![mfa.mediaRecorder].tracks = "stopped"]
    /\ UNCHANGED <<mfa, mfaCalls, hasMediaRecorder, outsideMfa>>

\* transcribeAudio(audioBlob) settles
TranscriptionSettles ==
  \E k \in 1..Len(blobs), failed \in BOOLEAN :
    /\ blobs[k].state = "transcribing"
    /\ IF failed
       THEN /\ mfa' = [mfa EXCEPT !.error = <<"Transcription error: ", "failed">>,
                                  !.isProcessing = FALSE]
            /\ blobs' = [blobs EXCEPT ![k].state = "done"]
       ELSE /\ mfa' = [mfa EXCEPT !.transcribedText = Hallo]
            /\ blobs' = [blobs EXCEPT ![k].state = "analysing"]
    /\ UNCHANGED <<mfaCalls, mfaRecorders, hasMediaRecorder, outsideMfa>>

\* analyzePronunciation(audioBlob, expectedText) settles
AnalysisSettles ==
  \E k \in 1..Len(blobs), failed \in BOOLEAN :
    /\ blobs[k].state = "analysing"
    /\ mfa' = IF failed
              THEN [mfa EXCEPT !.error = <<"Analysis error: ", "failed">>,
                               !.isProcessing = FALSE]
              ELSE [mfa EXCEPT !.analysisResult = <<"analysis">>, !.isProcessing = FALSE]
    /\ blobs' = [blobs EXCEPT ![k].state = "done"]
    /\ UNCHANGED <<mfaCalls, mfaRecorders, hasMediaRecorder, outsideMfa>>

clearResults ==
  /\ mfa' = [mfa EXCEPT !.transcribedText = <<>>, !.analysisResult = <<>>,
                        !.error = <<>>, !.audioChunks = <<>>]
  /\ UNCHANGED <<mfaCalls, mfaRecorders, blobs, hasMediaRecorder, outsideMfa>>

NextMfa ==
  \/ checkBackendAvailability
  \/ startRecording
  \/ CheckSettles
  \/ GetUserMediaSettles
  \/ stopRecording
  \/ ondataavailable
  \/ onstop
  \/ TranscriptionSettles
  \/ AnalysisSettles
  \/ clearResults

SpecMfa == InitMfa /\ [][NextMfa]_vars

(***************************************************************************)
(* useAdvancedPronunciation; startRecording, stopRecording and the cleanup *)
(* of useLocalPronunciation are the same code, with a loading flag more.   *)
(* mediaRecorder and audioChunks are bindings of the module, not state of  *)
(* the hook: mediaRecorder is 0 for null, else the index of a recorder.    *)
(* A call in advancedCalls is "getUserMedia" while it awaits the           *)
(* microphone and "done" afterwards.  A recorder is a record               *)
(* [state, onstop, tracks, stopSeen]: state as for the recorders above,    *)
(* onstop whether stopRecording set its handler, tracks "live" or          *)
(* "stopped" for the tracks of the stream it was created with, and         *)
(* stopSeen whether stopRecording stopped a recording since it exists.     *)
(* The callbacks are called by the component, hence while it is mounted;   *)
(* a getUserMedia that is pending settles whether it is mounted or not.    *)
(***************************************************************************)
MaxAdvancedCalls == 3

newAdvancedRecorder ==
  [state |-> "recording", onstop |-> FALSE, tracks |-> "live", stopSeen |-> FALSE]

\* mediaRecorder.stream.getTracks().forEach(track => track.stop()), if (mediaRecorder)
stopTracksOfMediaRecorder(recorders) ==
  IF mediaRecorder = 0 THEN recorders
  ELSE [recorders EXCEPT ![mediaRecorder].tracks = "stopped"]

InitAdvanced ==
  /\ advancedIdle
  /\ scorerIdle /\ callsIdle /\ pageIdle /\ hookIdle /\ transcribeIdle /\ pipelineIdle
  /\ mfaIdle

\* startRecording up to its await of getUserMedia
advancedStartRecording ==
  /\ advanced.mounted
  /\ Len(advancedCalls) < MaxAdvancedCalls
  /\ advanced' = [advanced EXCEPT !.error = <<>>, !.transcribedText = <<>>,
                                  !.analysisResult = <<>>]
  /\ audioChunks' = <<>>
  /\ advancedCalls' = Append(advancedCalls, "getUserMedia")
  /\ UNCHANGED <<mediaRecorder, advancedRecorders, outsideAdvanced>>

\* getUserMedia of call id settles: the rest of startRecording
AdvancedGetUserMediaSettles ==
  \E id \in 1..Len(advancedCalls), granted \in BOOLEAN :
    /\ advancedCalls[id] = "getUserMedia"
    /\ advancedCalls' = [advancedCalls EXCEPT ![id] = "done"]
    /\ IF granted
       THEN /\ advancedRecorders' = Append(advancedRecorders, newAdvancedRecorder)
            /\ mediaRecorder' = Len(advancedRecorders) + 1
            /\ advanced' = [advanced EXCEPT !.isRecording = TRUE]
       ELSE /\ advanced' = [advanced EXCEPT
                              !.error = <<"Failed to start recording: ",
                                          "Permission denied">>]
            /\ UNCHANGED <<advancedRecorders, mediaRecorder>>
    /\ UNCHANGED <<audioChunks, outsideAdvanced>>

advancedStopRecording ==
  /\ advanced.mounted
  /\ IF mediaRecorder = 0 \/ ~advanced.isRecording
     THEN /\ advanced' = [advanced EXCEPT !.error = <<"No recording in progress">>]
          /\ UNCHANGED advancedRecorders
     ELSE /\ advanced' = [advanced EXCEPT !.isRecording = FALSE, !.isProcessing = TRUE]
          /\ advancedRecorders' =
               [r \in 1..Len(advancedRecorders) |->
                  IF r = mediaRecorder
                  THEN [advancedRecorders[r] EXCEPT
                          !.onstop = TRUE, !.stopSeen = TRUE,
                          !.state = IF @ = "recording" THEN "stopping" ELSE @]
                  ELSE [advancedRecorders[r] EXCEPT !.stopSeen = TRUE]]
  /\ UNCHANGED <<mediaRecorder, audioChunks, advancedCalls, outsideAdvanced>>

\* mediaRecorder.ondataavailable of recorder id: its data, after stop()
advancedOndataavailable ==
  \E id \in 1..Len(advancedRecorders) :
    /\ advancedRecorders[id].state = "stopping"
    /\ audioChunks' = Append(audioChunks, id)
    /\ advancedRecorders' = [advancedRecorders EXCEPT ![id].state = "flushed"]
    /\ UNCHANGED <<mediaRecorder, advanced, advancedCalls, outsideAdvanced>>

\* mediaRecorder.onstop of recorder id, up to its await of transcribeAudio
advancedOnstop ==
  \E id \in 1..Len(advancedRecorders) :
    /\ advancedRecorders[id].state = "flushed"
    /\ advancedRecorders[id].onstop
    /\ advancedRecorders' =
         stopTracksOfMediaRecorder([advancedRecorders EXCEPT ![id].state = "transcribing"])
    /\ UNCHANGED <<mediaRecorder, audioChunks, advanced, advancedCalls, outsideAdvanced>>

\* the rest of the onstop handler of recorder id: transcribeAudio and
\* analyzePronunciation settle, with an error or with the analysis
AdvancedProcessingSettles ==
  \E id \in 1..Len(advancedRecorders),
     result \in {"transcription error", "analysis error", "analysis"} :
    /\ advancedRecorders[id].state = "transcribing"
    /\ advancedRecorders' = [advancedRecorders EXCEPT ![id].state = "inactive"]
    /\ advanced' =
         IF result = "transcription error"
         THEN [advanced EXCEPT !.error = <<"Transcription error: ", "failed">>,
                               !.isProcessing = FALSE]
         ELSE IF result = "analysis error"
         THEN [advanced EXCEPT !.transcribedText = Hallo,
                               !.error = <<"Analysis error: ", "failed">>,
                               !.isProcessing = FALSE]
         ELSE [advanced EXCEPT !.transcribedText = Hallo,
                               !.analysisResult = <<"analysis">>,
                               !.isProcessing = FALSE]
    /\ UNCHANGED <<mediaRecorder, audioChunks, advancedCalls, outsideAdvanced>>

\* the component unmounts: the cleanup of the effect
advancedCleanup ==
  /\ advanced.mounted
  /\ advanced' = [advanced EXCEPT !.mounted = FALSE]
  /\ advancedRecorders' = stopTracksOfMediaRecorder(advancedRecorders)
  /\ UNCHANGED <<mediaRecorder, audioChunks, advancedCalls, outsideAdvanced>>

NextAdvanced ==
  \/ advancedStartRecording
  \/ AdvancedGetUserMediaSettles
  \/ advancedStopRecording
  \/ advancedOndataavailable
  \/ advancedOnstop
  \/ AdvancedProcessingSettles
  \/ advancedCleanup

SpecAdvanced == InitAdvanced /\ [][NextAdvanced]_vars

\* A pending getUserMedia settles (the user answers the prompt); a recorder
\* whose stop() was called delivers its data and fires its stop event; the
\* services settle.  Calls and the unmount are under no obligation to happen.
SpecAdvancedFair ==
  /\ SpecAdvanced
  /\ WF_vars(AdvancedGetUserMediaSettles)
  /\ WF_vars(advancedOndataavailable)
  /\ WF_vars(advancedOnstop)
  /\ WF_vars(AdvancedProcessingSettles)

(***************************************************************************)
(* Vocabulary of the properties.                                           *)
(***************************************************************************)
\* v is the integer nearest to num / den (den > 0), halves rounded upwards
roundsTo(v, num, den) == 2 * den * v - den <= 2 * num /\ 2 * num < 2 * den * v + den

\* number of tokens of a text split on single spaces
wordCount(text) == Cardinality({k \in 1..Len(text) : text[k] = " "}) + 1

\* the k-th token (1-based) of a normalized text: its characters are the ones,
\* other than spaces, that have k - 1 spaces before them
wordAt(text, k) ==
  LET within == {j \in 1..Len(text) :
                   /\ text[j] # " "
                   /\ Cardinality({i \in 1..(j - 1) : text[i] = " "}) = k - 1}
  IN IF within = {} THEN <<>>
     ELSE LET first == CHOOSE j \in within : \A i \in within : j <= i
          IN [n \in 1..Cardinality(within) |-> text[first + n - 1]]

\* f[lo] + ... + f[hi], a range summed as its two halves
RECURSIVE sumRange(_, _, _)
sumRange(f, lo, hi) ==
  IF lo > hi THEN 0
  ELSE IF lo = hi THEN f[lo]
  ELSE sumRange(f, lo, (lo + hi) \div 2) + sumRange(f, (lo + hi) \div 2 + 1, hi)

sumOver(f, n) == sumRange(f, 1, n)

RECURSIVE sumFracRange(_, _, _)
sumFracRange(f, lo, hi) ==
  IF lo > hi THEN <<0, 1>>
  ELSE IF lo = hi THEN f[lo]
  ELSE AddFrac(sumFracRange(f, lo, (lo + hi) \div 2),
               sumFracRange(f, (lo + hi) \div 2 + 1, hi))

sumFracOver(f, n) == sumFracRange(f, 1, n)

bothStrings == IsString(spoken) /\ IsString(expected)

normalizedSpoken == normalizeGermanText(spoken.text)

normalizedExpected == normalizeGermanText(expected.text)

blankSpoken == IsString(spoken) /\ \A k \in 1..Len(spoken.text) : spoken.text[k] \in Whitespace

returnedBy(fn) == ret.fn = fn /\ ret.kind = "return"

isPercentage(x) == x \in 0..100

\* a chunk that ondataavailable keeps
nonEmptyChunk(data) == data.size > 0

\* two outcomes are results with the same score, details and feedback
sameScoring(one, other) ==
  /\ one.kind = "return" /\ other.kind = "return"
  /\ one.value.score = other.value.score
  /\ one.value.details = other.value.details
  /\ one.value.feedback = other.value.feedback

\* the inputs on which a step of the try block throws: trim of a number, or
\* toLowerCase of a null or a number once the transcript passed the blank test
stepFails ==
  \/ spoken.kind = "number"
  \/ IsString(spoken) /\ ~blankSpoken /\ ~IsString(expected)

\* the result and trace of the no-speech short circuit
isNoSpeechOutcome ==
  /\ ret.kind = "return"
  /\ ret.value = [score |-> 0,
                  feedback |-> <<"No speech detected. Please try again and speak more clearly.">>,
                  details |-> [phoneticAccuracy |-> 0, rhythmAccuracy |-> 0,
                               stressAccuracy |-> 0]]
  /\ ret.calls = <<>>

\* v is the phonetic accuracy the formula gives for the two normalized texts
isPhoneticAccuracy(v) ==
  IF normalizedExpected = <<>> THEN v = 0
  ELSE LET d == levenshteinDistance(normalizedSpoken, normalizedExpected)
           maxLen == Max(Len(normalizedSpoken), Len(normalizedExpected))
       IN roundsTo(v, Max(0, 100 * maxLen - 100 * d), maxLen)

\* the per-pair scores of the aligned words, by word length
wordScores ==
  [i \in 1..wordCount(normalizedSpoken) |->
     Max(0, 100 - 15 * Abs(Len(wordAt(normalizedSpoken, i))
                           - Len(wordAt(normalizedExpected, i))))]

alignedLengthsEqual ==
  \A i \in 1..wordCount(normalizedSpoken) :
    Len(wordAt(normalizedSpoken, i)) = Len(wordAt(normalizedExpected, i))

isAlignedAverage(v) ==
  LET n == wordCount(normalizedSpoken)
  IN roundsTo(v, sumOver(wordScores, n), n)

\* the per-pair similarities of the words compared by the stress analysis
comparedPairs == Min(wordCount(normalizedSpoken), wordCount(normalizedExpected))

wordSimilarities ==
  [i \in 1..comparedPairs |->
     LET wordSpoken == wordAt(normalizedSpoken, i)
         wordExpected == wordAt(normalizedExpected, i)
     IN IF wordSpoken = wordExpected THEN <<100, 1>>
        ELSE LET longer == Max(Len(wordSpoken), Len(wordExpected))
             IN <<100 * longer - 100 * levenshteinDistance(wordSpoken, wordExpected),
                  longer>>]

\* the indices of the overlapping part at which the normalized texts differ
mismatches ==
  {i \in 1..Min(Len(normalizedSpoken), Len(normalizedExpected)) :
     normalizedSpoken[i] # normalizedExpected[i]}

\* the texts the minimum number of edits is counted over
Texts == StringsUpTo(MaxLen)

isText(text) == Len(text) <= MaxLen /\ \A k \in 1..Len(text) : text[k] \in Alphabet

\* t without its k-th character
removeAt(t, k) == [j \in 1..(Len(t) - 1) |-> IF j < k THEN t[j] ELSE t[j + 1]]

\* one insertion, one deletion or one substitution of a character turns s into t
oneEdit(s, t) ==
  \/ Len(s) = Len(t) /\ Cardinality({k \in 1..Len(s) : s[k] # t[k]}) = 1
  \/ Len(t) = Len(s) + 1 /\ \E k \in 1..Len(t) : removeAt(t, k) = s
  \/ Len(s) = Len(t) + 1 /\ \E k \in 1..Len(s) : removeAt(s, k) = t

\* (f @@ <<>> is f, kept as a table of its values)
neighbours == [s \in Texts |-> {t \in Texts : oneEdit(s, t)}] @@ <<>>

\* the texts that at most k edits make of s.  A shortest sequence of edits can
\* be ordered deletions first, insertions last, and then passes only through
\* texts no longer than the longer of its two ends, made of their characters.
RECURSIVE withinEdits(_, _)
withinEdits(s, k) ==
  IF k = 0 THEN {s}
  ELSE LET inner == withinEdits(s, k - 1)
       IN inner \cup UNION {neighbours[t] : t \in inner}

editBalls == [s \in Texts |-> [k \in 0..MaxLen |-> withinEdits(s, k)] @@ <<>>] @@ <<>>

\* the minimum number of edits that turn s into t
minimumEdits(s, t) == CHOOSE k \in 0..MaxLen : t \in editBalls[s][k] /\ (k = 0 \/ t \notin editBalls[s][k - 1])

\* the normalized text is well formed: lower case, free of the punctuation
\* class, its only whitespace single spaces between other characters
isNormalized(text) ==
  \A k \in 1..Len(text) :
    /\ text[k] \notin DOMAIN LowerOf
    /\ text[k] \notin Punctuation
    /\ text[k] \in Whitespace =>
         /\ text[k] = " "
         /\ 1 < k /\ k < Len(text)
         /\ text[k - 1] \notin Whitespace /\ text[k + 1] \notin Whitespace

(***************************************************************************)
(* C1: for every pair of strings, empty, punctuation-only and              *)
(* whitespace-only ones included, the result of analyzePronunciation has a *)
(* score and three detail values that are each an integer in 0..100.       *)
(***************************************************************************)
ScoresArePercentages ==
  (ret.fn = "analyzePronunciation" /\ bothStrings) =>
    /\ ret.kind = "return"
    /\ isPercentage(ret.value.score)
    /\ isPercentage(ret.value.details.phoneticAccuracy)
    /\ isPercentage(ret.value.details.rhythmAccuracy)
    /\ isPercentage(ret.value.details.stressAccuracy)

\* a text of punctuation only was scored by the sub-analyses
PunctuationOnlyScored ==
  /\ returnedBy("analyzePronunciation") /\ bothStrings
  /\ spoken.text # <<>> /\ normalizedSpoken = <<>>
  /\ ret.calls # <<>>
  /\ ret.value.details.rhythmAccuracy = 25

(***************************************************************************)
(* C2: analyzePronunciation lets no exception escape: every input, null    *)
(* and non-string values included, gets a well-formed result; when a step  *)
(* inside fails the result is score 0, feedback "Error analyzing           *)
(* pronunciation", details 0 / 0 / 0 and an error message.                 *)
(***************************************************************************)
NoExceptionEscapes ==
  ret.fn = "analyzePronunciation" =>
    /\ ret.kind = "return"
    /\ DOMAIN ret.value \in {{"score", "feedback", "details"},
                             {"score", "feedback", "details", "error"}}
    /\ ret.value.score \in Int
    /\ Len(ret.value.feedback) > 0
    /\ DOMAIN ret.value.details = {"phoneticAccuracy", "rhythmAccuracy", "stressAccuracy"}
    /\ stepFails <=> "error" \in DOMAIN ret.value
    /\ "error" \in DOMAIN ret.value =>
         /\ ret.value.score = 0
         /\ ret.value.feedback = <<"Error analyzing pronunciation">>
         /\ ret.value.details.phoneticAccuracy = 0
         /\ ret.value.details.rhythmAccuracy = 0
         /\ ret.value.details.stressAccuracy = 0
         /\ Len(ret.value.error) > 0

\* a null expected text made a sub-analysis throw, and the call returned
ExceptionCaught ==
  /\ returnedBy("analyzePronunciation")
  /\ expected.kind = "null" /\ IsString(spoken) /\ ~blankSpoken
  /\ "error" \in DOMAIN ret.value
  /\ ret.calls = <<"getPhoneticAnalysis">>

(***************************************************************************)
(* C3: whenever the spoken transcript is empty or whitespace-only the      *)
(* scorer returns exactly score 0, feedback "No speech detected. Please    *)
(* try again and speak more clearly.", details 0 / 0 / 0 and no error, for *)
(* every expected text, and runs no sub-analysis.  Stated of both scorers  *)
(* the claim names (simpleSpeechService and localTranscriptionService).    *)
(***************************************************************************)
BlankTranscriptShortCircuits ==
  (ret.fn \in {"analyzePronunciation", "localAnalyzePronunciation"}
     /\ blankSpoken /\ IsString(expected)) => isNoSpeechOutcome

\* C3, simpleSpeechService alone: there the short circuit holds
SimpleBlankTranscriptShortCircuits ==
  (ret.fn = "analyzePronunciation" /\ blankSpoken) => isNoSpeechOutcome

\* the local scorer ran its sub-analyses on an empty transcript
LocalScoredEmptyTranscript ==
  /\ returnedBy("localAnalyzePronunciation")
  /\ spoken = Str(<<>>) /\ expected = Str(Danke)
  /\ ret.calls = <<"getPhoneticAnalysis", "getRhythmAnalysis", "getStressAnalysis",
                   "getFeedback">>
  /\ ret.value = [score |-> 19,
                  feedback |-> <<"Try again and speak more clearly.">>,
                  details |-> [phoneticAccuracy |-> 0, rhythmAccuracy |-> 25,
                               stressAccuracy |-> 70]]

(***************************************************************************)
(* C4: for every non-blank spoken text the overall score is                *)
(* round(phoneticAccuracy * 0.6 + rhythmAccuracy * 0.2 + stressAccuracy *  *)
(* 0.2) of the three detail values of the same result.                     *)
(***************************************************************************)
ScoreIsWeightedSum ==
  (ret.fn = "analyzePronunciation" /\ IsString(spoken) /\ ~blankSpoken) =>
    /\ ret.kind = "return"
    /\ roundsTo(ret.value.score,
                6 * ret.value.details.phoneticAccuracy
                  + 2 * ret.value.details.rhythmAccuracy
                  + 2 * ret.value.details.stressAccuracy,
                10)

\* the three details differ, so each weight shows in the score
WeightedSumOfDistinctDetails ==
  /\ returnedBy("analyzePronunciation") /\ bothStrings /\ ~blankSpoken
  /\ ret.value.details = [phoneticAccuracy |-> 50, rhythmAccuracy |-> 85,
                          stressAccuracy |-> 70]
  /\ ret.value.score = 61

(***************************************************************************)
(* C5: phoneticAccuracy is 0 whenever the normalized expected text is      *)
(* empty, whatever was spoken, and otherwise                               *)
(* round(max(0, 100 - (d / maxLen) * 100)) with d the edit distance of the *)
(* two normalized texts and maxLen the larger of their lengths.            *)
(***************************************************************************)
PhoneticAccuracyFormula ==
  /\ ret.fn = "getPhoneticAnalysis" => isPhoneticAccuracy(ret.value)
  /\ (returnedBy("analyzePronunciation") /\ ret.calls # <<>> /\ bothStrings)
       => isPhoneticAccuracy(ret.value.details.phoneticAccuracy)

\* a spoken text longer than the expected one, one edit away from it
PhoneticOfLongerSpoken ==
  /\ ret.fn = "getPhoneticAnalysis"
  /\ Len(normalizedSpoken) = 3 /\ Len(normalizedExpected) = 2
  /\ levenshteinDistance(normalizedSpoken, normalizedExpected) = 1
  /\ ret.value = 67

(***************************************************************************)
(* C6: when the word counts of the two normalized texts differ,            *)
(* rhythmAccuracy is max(0, 70 - 10 * |countSpoken - countExpected|): at   *)
(* most 70, 10 points less per extra or missing word, never below 0,       *)
(* whatever the words are.                                                 *)
(***************************************************************************)
RhythmOfDifferentWordCounts ==
  ret.fn = "getRhythmAnalysis" =>
    LET countSpoken == wordCount(normalizedSpoken)
        countExpected == wordCount(normalizedExpected)
    IN countSpoken # countExpected =>
         /\ ret.value = Max(0, 70 - 10 * Abs(countSpoken - countExpected))
         /\ ret.value \in 0..70

\* nine words against one: the penalty of 80 is floored at 0
RhythmPenaltyFloored ==
  /\ ret.fn = "getRhythmAnalysis"
  /\ wordCount(normalizedSpoken) = 9 /\ wordCount(normalizedExpected) = 1
  /\ ret.value = 0

(***************************************************************************)
(* C7 as claimed: when the word counts match, rhythmAccuracy is the        *)
(* rounded average over the aligned pairs of                               *)
(* max(0, 100 - 15 * |length difference|), and it is 100 exactly when      *)
(* every aligned pair has equal length.                                    *)
(***************************************************************************)
RhythmHundredExactlyWhenLengthsEqual ==
  (ret.fn = "getRhythmAnalysis"
     /\ wordCount(normalizedSpoken) = wordCount(normalizedExpected)) =>
    /\ isAlignedAverage(ret.value)
    /\ ret.value = 100 <=> alignedLengthsEqual

(***************************************************************************)
(* C7 as amended: when the word counts match, rhythmAccuracy is that       *)
(* rounded average; it is 100 whenever every aligned pair has equal        *)
(* length, and for texts of fewer than 30 words only then.                 *)
(***************************************************************************)
RhythmOfEqualWordCounts ==
  (ret.fn = "getRhythmAnalysis"
     /\ wordCount(normalizedSpoken) = wordCount(normalizedExpected)) =>
    /\ isAlignedAverage(ret.value)
    /\ alignedLengthsEqual => ret.value = 100
    /\ (ret.value = 100 /\ wordCount(normalizedSpoken) < 30) => alignedLengthsEqual

\* two words each, one pair three characters apart: (100 + 55) / 2 rounds to 78
RhythmAverageRoundedUp ==
  /\ ret.fn = "getRhythmAnalysis"
  /\ wordCount(normalizedSpoken) = 2 /\ wordCount(normalizedExpected) = 2
  /\ ~alignedLengthsEqual
  /\ ret.value = 78

(***************************************************************************)
(* C8: stressAccuracy is the fixed value 70 whenever the normalized spoken *)
(* text or the normalized expected text has at most one word, whatever the *)
(* words are.                                                              *)
(***************************************************************************)
StressDefaultForSingleWord ==
  (ret.fn = "getStressAnalysis"
     /\ (wordCount(normalizedSpoken) <= 1 \/ wordCount(normalizedExpected) <= 1))
    => ret.value = 70

\* one word spoken against two expected, the first of them the same word
StressDefaultOneAgainstTwo ==
  /\ ret.fn = "getStressAnalysis"
  /\ wordCount(normalizedSpoken) = 1 /\ wordCount(normalizedExpected) = 2
  /\ normalizedSpoken # <<>>
  /\ wordAt(normalizedExpected, 1) = normalizedSpoken
  /\ ret.value = 70

(***************************************************************************)
(* C9: when both normalized texts have at least two words, stressAccuracy  *)
(* is the rounded average, over the indices below                          *)
(* min(countSpoken, countExpected), of 100 for equal words and             *)
(* 100 - (editDistance / longer word length) * 100 otherwise; the words    *)
(* beyond the shorter sequence have no influence.                          *)
(***************************************************************************)
StressOfAlignedWords ==
  (ret.fn = "getStressAnalysis"
     /\ wordCount(normalizedSpoken) >= 2 /\ wordCount(normalizedExpected) >= 2) =>
    LET total == sumFracOver(wordSimilarities, comparedPairs)
    IN roundsTo(ret.value, total[1], total[2] * comparedPairs)

\* two words against three, both compared pairs partly alike: (66.7 + 50) / 2
StressOfUnequalCounts ==
  /\ ret.fn = "getStressAnalysis"
  /\ wordCount(normalizedSpoken) = 2 /\ wordCount(normalizedExpected) = 3
  /\ \A i \in 1..2 : wordAt(normalizedSpoken, i) # wordAt(normalizedExpected, i)
  /\ ret.value = 58

(***************************************************************************)
(* C10: for every result with score >= 40 the feedback is determined by    *)
(* the score of that result alone: >= 90 "Excellent pronunciation!",       *)
(* 75..89 "Very good pronunciation, keep practicing!", 60..74 "Good        *)
(* effort, try to pronounce more clearly.", 40..59 "Keep practicing, focus *)
(* on pronouncing each syllable.".                                         *)
(***************************************************************************)
FeedbackByScoreBand ==
  (returnedBy("analyzePronunciation") /\ ret.value.score >= 40) =>
    ret.value.feedback =
      IF ret.value.score >= 90 THEN <<"Excellent pronunciation!">>
      ELSE IF ret.value.score >= 75 THEN <<"Very good pronunciation, keep practicing!">>
      ELSE IF ret.value.score >= 60 THEN <<"Good effort, try to pronounce more clearly.">>
      ELSE <<"Keep practicing, focus on pronouncing each syllable.">>

\* a result whose score is exactly the lowest threshold
FeedbackAtForty ==
  /\ returnedBy("analyzePronunciation")
  /\ ret.value.score = 40
  /\ ret.value.feedback = <<"Keep practicing, focus on pronouncing each syllable.">>

(***************************************************************************)
(* C11: for every result with score < 40 of a non-blank spoken text, the   *)
(* feedback names the first index, within the shorter of the two           *)
(* normalized texts, at which their characters differ, as 'Practice        *)
(* needed. Try to pronounce "<expectedChar>" instead of "<spokenChar>".';  *)
(* when the texts agree on the whole overlapping part the feedback is      *)
(* "Try again and speak more clearly.".                                    *)
(***************************************************************************)
FeedbackNamesFirstMismatch ==
  (returnedBy("analyzePronunciation") /\ bothStrings /\ ~blankSpoken
     /\ ret.value.score < 40) =>
    IF mismatches = {}
    THEN ret.value.feedback = <<"Try again and speak more clearly.">>
    ELSE LET i == CHOOSE k \in mismatches : \A j \in mismatches : k <= j
         IN ret.value.feedback =
              <<"Practice needed. ", "Try to pronounce \"", normalizedExpected[i],
                "\" instead of \"", normalizedSpoken[i], "\".">>

\* the texts agree on their first character and differ at more than one later index
FeedbackAfterCommonPrefix ==
  /\ returnedBy("analyzePronunciation") /\ bothStrings /\ ~blankSpoken
  /\ ret.value.score < 40
  /\ 1 \notin mismatches /\ Cardinality(mismatches) >= 2
  /\ ret.value.feedback[1] = "Practice needed. "

(***************************************************************************)
(* C12: for all strings a and b, levenshteinDistance(a, b) is the minimum  *)
(* number of single-character insertions, deletions and substitutions that *)
(* turn a into b; when either argument is empty it is the length of the    *)
(* other.                                                                  *)
(***************************************************************************)
LevenshteinIsMinimumEdits ==
  ret.fn = "levenshteinDistance" =>
    /\ (isText(spoken.text) /\ isText(expected.text))
         => ret.value = minimumEdits(spoken.text, expected.text)
    /\ spoken.text = <<>> => ret.value = Len(expected.text)
    /\ expected.text = <<>> => ret.value = Len(spoken.text)

\* three characters against two others: one deletion and two substitutions
LevenshteinOfDeletionAndSubstitutions ==
  /\ ret.fn = "levenshteinDistance"
  /\ Len(spoken.text) = 3 /\ Len(expected.text) = 2
  /\ isText(spoken.text) /\ isText(expected.text)
  /\ ret.value = 3

(***************************************************************************)
(* C13: for all strings a and b, levenshteinDistance(a, b) =               *)
(* levenshteinDistance(b, a), pairs of different lengths and pairs with an *)
(* empty string included.                                                  *)
(***************************************************************************)
LevenshteinIsSymmetric ==
  ret.fn = "levenshteinDistance" =>
    ret.value = levenshteinDistance(expected.text, spoken.text)

\* a shorter text against a longer one, neither empty, not a mere extension
LevenshteinOfShorterAgainstLonger ==
  /\ ret.fn = "levenshteinDistance"
  /\ Len(spoken.text) = 1 /\ Len(expected.text) = 3
  /\ ret.value = 3

(***************************************************************************)
(* C14: normalizeGermanText is idempotent: normalizing the normalized text *)
(* again returns the same text, also when removing punctuation leaves      *)
(* adjacent or leading or trailing whitespace ("a - b", " ! a").           *)
(***************************************************************************)
NormalizeIsIdempotent ==
  ret.fn = "normalizeGermanText" => normalizeGermanText(ret.value) = ret.value

\* the punctuation removed from " ! a" leaves leading whitespace to trim
NormalizedLeadingPunctuation ==
  /\ ret.fn = "normalizeGermanText"
  /\ spoken.text = <<" ", "!", " ", "a">>
  /\ ret.value = <<"a">>

(***************************************************************************)
(* C15: for every input string the output of normalizeGermanText has no    *)
(* upper-case letter, none of the characters . , / # ! $ % ^ & * ; : { } = *)
(* - _ ` ~ ( ), no whitespace other than single spaces between non-space   *)
(* characters and no leading or trailing whitespace; the function returns  *)
(* for every string, with no error outcome.                                *)
(***************************************************************************)
NormalizedTextIsWellFormed ==
  (ret.fn # "none" /\ IsString(spoken)) =>
    /\ ret.fn = "normalizeGermanText" => (ret.kind = "return" /\ isNormalized(ret.value))
    /\ isNormalized(normalizedSpoken)

\* an upper-case letter, a hyphen and a tab went in, two words came out
NormalizedPunctuatedText ==
  /\ ret.fn = "normalizeGermanText" /\ ret.kind = "return"
  /\ \E i, j, k \in 1..Len(spoken.text) :
       spoken.text[i] = "B" /\ spoken.text[j] = "-" /\ spoken.text[k] = "\t"
  /\ wordCount(ret.value) = 2 /\ Len(ret.value) = 3

(***************************************************************************)
(* C16: phoneticAccuracy(s, t) = 100 whenever s and t normalize to the     *)
(* same non-empty text, so when they differ only in case, punctuation or   *)
(* spacing; in particular phoneticAccuracy(s, s) = 100.                    *)
(***************************************************************************)
PhoneticOfSameNormalizedText ==
  (ret.fn = "getPhoneticAnalysis"
     /\ normalizedSpoken = normalizedExpected /\ normalizedSpoken # <<>>)
    => ret.value = 100

\* two different texts that normalize to the same words
PhoneticOfDifferentlyWrittenText ==
  /\ ret.fn = "getPhoneticAnalysis"
  /\ spoken.text # expected.text /\ Len(spoken.text) # Len(expected.text)
  /\ normalizedSpoken = normalizedExpected /\ wordCount(normalizedSpoken) = 2
  /\ ret.value = 100

(***************************************************************************)
(* C17: for every text s that normalizes to a single non-empty word,       *)
(* analyzePronunciation(s, s) returns phoneticAccuracy 100, rhythmAccuracy *)
(* 100, stressAccuracy 70, score 94 and feedback "Excellent                *)
(* pronunciation!".                                                        *)
(***************************************************************************)
SingleWordAgainstItself ==
  (ret.fn = "analyzePronunciation" /\ bothStrings /\ spoken = expected
     /\ normalizedSpoken # <<>> /\ wordCount(normalizedSpoken) = 1) =>
    /\ ret.kind = "return"
    /\ ret.value = [score |-> 94,
                    feedback |-> <<"Excellent pronunciation!">>,
                    details |-> [phoneticAccuracy |-> 100, rhythmAccuracy |-> 100,
                                 stressAccuracy |-> 70]]

\* "Hallo" spoken for "Hallo"
HalloAgainstHallo ==
  /\ returnedBy("analyzePronunciation")
  /\ spoken = Str(Hallo) /\ expected = Str(Hallo)
  /\ ret.value.score = 94

NextWordIsNewWord ==
  (lastEvent = "handleNextWord" /\ Len(filteredVocabulary(level)) > 1)
    => currentWord # wordBefore

\* "Next Word" was clicked at level A1 and the word with id 1 is shown again
NextWordShowsSameWord ==
  /\ lastEvent = "handleNextWord"
  /\ level = "A1" /\ Len(filteredVocabulary(level)) = 20
  /\ wordBefore = 1 /\ currentWord = 1

(***************************************************************************)
(* C20: in useSimplePronunciation the scorer is invoked only after the     *)
(* transcript is fully available: analyzePronunciation runs only in the    *)
(* recognizer's end callback that follows stopListening, and the           *)
(* transcript it receives is the last result delivered by the recording    *)
(* session that was stopped (empty if that session delivered none), never  *)
(* a transcript of an earlier session.                                     *)
(***************************************************************************)
ScorerGetsTranscriptOfStoppedSession ==
  /\ \A id \in 1..Len(recognizers) :
       recognizers[id].scoredWith # <<>> =>
         /\ recognizers[id].status = "ended"
         /\ recognizers[id].onend # <<>>
         /\ recognizers[id].scoredWith[1] = recognizers[id].delivered
  /\ analysisResult # <<>> =>
       /\ recognition # 0
       /\ recognizers[recognition].scoredWith = <<transcribedText>>

\* the second session delivered nothing and was scored with the empty
\* transcript, after a first session that had delivered "Hallo"
SilentSessionAfterSpokenOne ==
  /\ Len(recognizers) = 2
  /\ recognizers[1].delivered = Hallo /\ recognizers[1].scoredWith = <<Hallo>>
  /\ recognizers[2].delivered = <<>> /\ recognizers[2].scoredWith = <<<<>>>>
  /\ analysisResult # <<>> /\ analysisResult[1].score = 0

(***************************************************************************)
(* C23 as claimed: for every spoken text and every expected text that is   *)
(* not empty once normalized, calculateAccuracy returns a number between 0 *)
(* and 100 equal to the rounded value of 100 minus 100 times the edit      *)
(* distance of the normalized texts over the length of the normalized      *)
(* expected text.                                                          *)
(***************************************************************************)
AccuracyOverExpectedLength ==
  (ret.fn = "calculateAccuracy" /\ normalizedExpected # <<>>) =>
    /\ isPercentage(ret.value)
    /\ roundsTo(ret.value,
                Max(0, 100 * Len(normalizedExpected)
                         - 100 * levenshteinDistance(normalizedSpoken, normalizedExpected)),
                Len(normalizedExpected))

\* two characters spoken for one expected, one edit apart: the code divides by
\* the longer length and returns 50, where the expected length gives 0
AccuracyOfLongerSpoken ==
  /\ ret.fn = "calculateAccuracy"
  /\ Len(normalizedSpoken) = 2 /\ Len(normalizedExpected) = 1
  /\ levenshteinDistance(normalizedSpoken, normalizedExpected) = 1
  /\ ret.value = 50

(***************************************************************************)
(* C28: for every pair whose spoken value is neither missing nor blank,    *)
(* analyzePronunciation of simpleSpeechService and analyzePronunciation of *)
(* localTranscriptionService return the same score, the same three detail  *)
(* values and the same feedback.                                           *)
(***************************************************************************)
ScorersAgree ==
  /\ (ret.fn = "analyzePronunciation" /\ spoken.kind # "null" /\ ~blankSpoken) =>
        sameScoring(ret, localAnalyzePronunciation(spoken, expected))
  /\ (ret.fn = "localAnalyzePronunciation" /\ spoken.kind # "null" /\ ~blankSpoken) =>
        sameScoring(ret, analyzePronunciation(spoken, expected))

\* one word scored for one word by the local scorer: minLength is 1
LocalScoresOneWordLikeSimple ==
  /\ returnedBy("localAnalyzePronunciation")
  /\ spoken = Str(Xyz) /\ expected = Str(Hallo)
  /\ sameScoring(ret, analyzePronunciation(spoken, expected))
  /\ ret.value.details.rhythmAccuracy = 70

(***************************************************************************)
(* C30: for every input string the normalized text split on single spaces  *)
(* has at least one token; the tokens are all non-empty unless the         *)
(* normalized text is empty, and then the sequence is exactly one empty    *)
(* token.  Hence on the multi-word path of getStressAnalysis the longer    *)
(* length of every aligned pair of words is positive, the number of pairs  *)
(* is positive, and every sub-score is a finite number of 0..100.          *)
(***************************************************************************)
TokensOfNormalizedText ==
  /\ ret.fn = "normalizeGermanText" =>
        LET tokens == split(ret.value)
        IN /\ Len(tokens) >= 1
           /\ ret.value = <<>> => tokens = << <<>> >>
           /\ ret.value # <<>> => \A w \in 1..Len(tokens) : tokens[w] # <<>>
  /\ ret.fn = "getStressAnalysis" =>
        LET spokenWords == split(normalizedSpoken)
            expectedWords == split(normalizedExpected)
        IN /\ Len(spokenWords) >= 1 /\ Len(expectedWords) >= 1
           /\ (Len(spokenWords) > 1 /\ Len(expectedWords) > 1) =>
                \A i \in 1..Min(Len(spokenWords), Len(expectedWords)) :
                  Max(Len(spokenWords[i]), Len(expectedWords[i])) > 0
  /\ ret.fn \in {"getPhoneticAnalysis", "getRhythmAnalysis", "getStressAnalysis"} =>
        isPercentage(ret.value)

\* "a - b" against "A<tab>B": the punctuation leaves two spaces in a row, and
\* the normalized text still has two words
StressOverRemovedPunctuation ==
  /\ ret.fn = "getStressAnalysis"
  /\ spoken = Str(<<"a", " ", "-", " ", "b">>)
  /\ split(normalizedSpoken) = << <<"a">>, <<"b">> >>
  /\ split(normalizedExpected) = << <<"a">>, <<"b">> >>
  /\ ret.value = 100

(***************************************************************************)
(* C21: the promise returned by recordAndTranscribe never rejects and      *)
(* resolves once, with the value of the first recognizer event: a result   *)
(* event gives {text: transcript}, an error event {text: '', error}, an    *)
(* end event with no earlier event {text: ''}; the events that fire after  *)
(* the first one leave the resolved value as it is, and before the first   *)
(* event of a started recognizer the promise is pending.                   *)
(***************************************************************************)
ResolvesOnceWithFirstEvent ==
  /\ transcription.state # "rejected"
  /\ fired # <<>> =>
       /\ transcription.state = "fulfilled"
       /\ fired[1].type = "result" => transcription.value = [text |-> fired[1].transcript]
       /\ fired[1].type = "error" =>
            transcription.value =
              [text |-> <<>>, error |-> <<"Speech recognition error: ", fired[1].error>>]
       /\ fired[1].type = "end" => transcription.value = [text |-> <<>>]
  /\ (fired = <<>> /\ speechRecognizer = "started") => transcription.state = "pending"

\* the recognizer heard "Hallo" and then ended
EndAfterResult ==
  /\ fired = <<[type |-> "result", transcript |-> Hallo], [type |-> "end"]>>
  /\ transcription = [state |-> "fulfilled", value |-> [text |-> Hallo]]

(***************************************************************************)
(* C24 as claimed: in useSimplePronunciation, whenever stopListening is    *)
(* called while recording, processing eventually finishes: isProcessing    *)
(* returns to false with analysisResult or error set, for every ordering   *)
(* of the recognizer's result, error and end events relative to the stop   *)
(* call, the recognizer having ended by itself before the click included.  *)
(***************************************************************************)
ProcessingEventuallyFinishes ==
  isProcessing ~> (~isProcessing /\ (analysisResult # <<>> \/ error # <<>>))

\* the recognizer ended by itself, then stop was clicked: the handler set by
\* stopListening is on a recognizer that fires no further event
StoppedAfterRecognizerEnded ==
  /\ isProcessing /\ ~isRecording
  /\ recognition # 0
  /\ recognizers[recognition].status = "ended"
  /\ recognizers[recognition].onend # <<>>
  /\ recognizers[recognition].scoredWith = <<>>
  /\ \A id \in 1..Len(recognizers) : recognizers[id].status = "ended"

(***************************************************************************)
(* C22: for any interleaving of getInstance calls (those made inside       *)
(* transcribeAudio included) the model load, pipeline(...), is started at  *)
(* most once; a call made while the load is in flight waits on that same   *)
(* load, and every call made after it succeeded gets the one cached        *)
(* instance.                                                               *)
(***************************************************************************)
ModelLoadedAtMostOnce ==
  /\ pipelineCalls <= 1
  /\ callers # <<>> => pipelineCalls = 1
  /\ \A id \in 1..Len(callers) :
       /\ callers[id].loadWas = "pending" => callers[id].got = "loading_promise"
       /\ (callers[id].loadWas = "pending" /\ callers[id].state # "awaiting") =>
            loadState \in {"fulfilled", "rejected"}
       /\ callers[id].loadWas = "fulfilled" =>
            /\ callers[id].got = "instance"
            /\ instance = <<thePipe>>
            /\ callers[id].state \in {"fulfilled", "transcribing"} =>
                 callers[id].value = thePipe
       /\ (callers[id].fn = "getInstance" /\ callers[id].state = "fulfilled") =>
            callers[id].value = thePipe

\* three calls while the load is in flight, all served by the one load
ThreeCallsOneLoad ==
  /\ Len(callers) = 3
  /\ callers[2].loadWas = "pending" /\ callers[3].loadWas = "pending"
  /\ \A id \in 1..3 : callers[id].fn = "getInstance" /\ callers[id].state = "fulfilled"
  /\ pipelineCalls = 1

(***************************************************************************)
(* C29: if the model load started by getInstance fails, the failure is     *)
(* permanent for the module: pipeline(...) is never invoked again, every   *)
(* later getInstance call rejects with the same error, and every           *)
(* transcribeAudio call returns {text: '', error} instead of throwing.     *)
(***************************************************************************)
LoadFailureIsPermanent ==
  /\ \A id \in 1..Len(callers) : callers[id].state # "threw"
  /\ loadState = "rejected" =>
       /\ pipelineCalls = 1 /\ instance = <<>>
       /\ \A id \in 1..Len(callers) :
            /\ callers[id].loadWas # "fulfilled"
            /\ callers[id].got = "loading_promise"
            /\ callers[id].state \in {"awaiting", "rejected", "returned"}
            /\ callers[id].state = "rejected" => callers[id].value = loading_promise[1].value
            /\ callers[id].state = "returned" =>
                 /\ callers[id].value.text = <<>>
                 /\ "error" \in DOMAIN callers[id].value
  /\ \A id \in 1..Len(callers) :
       callers[id].loadWas = "rejected" => loadState = "rejected"

\* after the load failed: a getInstance call rejected with the error of the
\* load, and a transcribeAudio call that returned an error text
CallsAfterFailedLoad ==
  /\ Len(callers) = 3
  /\ loadState = "rejected"
  /\ callers[2].loadWas = "rejected" /\ callers[2].fn = "getInstance"
  /\ callers[2].state = "rejected"
  /\ callers[3].loadWas = "rejected" /\ callers[3].fn = "transcribeAudio"
  /\ callers[3].state = "returned"
  /\ callers[3].value = [text |-> <<>>, error |-> "fetch failed"]

(***************************************************************************)
(* C25 as claimed: in useMfaPronunciation the audio blob handed to         *)
(* transcribeAudio and analyzePronunciation when a recording stops holds   *)
(* every non-empty chunk delivered by ondataavailable for that recording,  *)
(* in delivery order, the chunks delivered after stopRecording was called  *)
(* and before the recorder's stop event included.                          *)
(***************************************************************************)
BlobHoldsEveryChunk ==
  \A k \in 1..Len(blobs) :
    blobs[k].chunks = SelectSeq(mfaRecorders[blobs[k].recorder].delivered, nonEmptyChunk)

\* the recorder delivered its data after stop(); the blob built in its onstop
\* handler is the empty list the handler closed over
BlobMissesDeliveredChunk ==
  /\ Len(blobs) = 1
  /\ mfaRecorders[blobs[1].recorder].delivered = <<[recorder |-> blobs[1].recorder, size |-> 1]>>
  /\ blobs[1].chunks = <<>>
  /\ mfa.audioChunks = mfaRecorders[blobs[1].recorder].delivered

(***************************************************************************)
(* C26: in useMfaPronunciation isRecording becomes true, and the           *)
(* microphone is requested, only in a startRecording call whose own health *)
(* check returned available; when the check of a call does not, that call  *)
(* creates no recorder, and its check leaves error set and                 *)
(* isCheckingBackend false.                                                *)
(***************************************************************************)
RecordsOnlyAfterOwnCheck ==
  /\ \A id \in 1..Len(mfaCalls) :
       /\ (mfaCalls[id].micRequested \/ mfaCalls[id].setRecording) =>
            mfaCalls[id].fn = "startRecording" /\ mfaCalls[id].available = "yes"
       /\ mfaCalls[id].available = "no" =>
            /\ mfaCalls[id].pc = "done"
            /\ \A r \in 1..Len(mfaRecorders) : mfaRecorders[r].owner # id
            /\ mfaCalls[id].afterCheck[1].error # <<>>
            /\ mfaCalls[id].afterCheck[1].isCheckingBackend = FALSE
       /\ mfaCalls[id].available = "yes" =>
            mfaCalls[id].afterCheck[1].isCheckingBackend = FALSE
  /\ \A r \in 1..Len(mfaRecorders) : mfaCalls[mfaRecorders[r].owner].setRecording
  /\ mfa.isRecording => \E id \in 1..Len(mfaCalls) : mfaCalls[id].setRecording

\* the check made on mount found no backend, the check of the startRecording
\* call made meanwhile found one: that call records
RecordsAfterOwnCheckOnly ==
  /\ Len(mfaCalls) = 2
  /\ mfaCalls[1].fn = "checkBackendAvailability" /\ mfaCalls[1].available = "no"
  /\ mfaCalls[2].fn = "startRecording" /\ mfaCalls[2].available = "yes"
  /\ mfaCalls[2].setRecording
  /\ mfa.isRecording /\ ~mfa.isBackendAvailable
  /\ Len(mfaRecorders) = 1 /\ mfaRecorders[1].owner = 2

(***************************************************************************)
(* C27 as claimed: in useAdvancedPronunciation and useLocalPronunciation   *)
(* every microphone stream obtained by a startRecording call is eventually *)
(* released (its tracks stopped) once the recording is stopped or the      *)
(* component unmounts, for every sequence of startRecording and            *)
(* stopRecording calls, a second startRecording issued before the first    *)
(* one's getUserMedia has resolved included.                               *)
(***************************************************************************)
StreamsEventuallyReleased ==
  \A id \in 1..MaxAdvancedCalls :
    (/\ id <= Len(advancedRecorders)
     /\ advancedRecorders[id].stopSeen \/ ~advanced.mounted)
      ~> (id <= Len(advancedRecorders) /\ advancedRecorders[id].tracks = "stopped")

\* two startRecording calls were in flight together; the recording was
\* stopped and processed and the component unmounted; the stream of the
\* first recorder is still live and no binding refers to it
FirstStreamLeftLive ==
  /\ Len(advancedRecorders) = 2 /\ mediaRecorder = 2
  /\ advancedRecorders[1].tracks = "live" /\ advancedRecorders[1].state = "recording"
  /\ advancedRecorders[1].stopSeen
  /\ advancedRecorders[2].tracks = "stopped" /\ advancedRecorders[2].state = "inactive"
  /\ ~advanced.mounted /\ ~advanced.isProcessing
  /\ \A id \in 1..Len(advancedCalls) : advancedCalls[id] = "done"

====
